---- MODULE Spec2Model ----
(***************************************************************************)
(* Permission and approval-workflow subsystem of the portfolio backend:    *)
(* the authentication / authorization middleware, the sub-admin team       *)
(* routes, the pending-request routes with the execution of approved       *)
(* requests, and the content routes the requests act on.                   *)
(***************************************************************************)
EXTENDS Integers, Sequences, FiniteSets, TLC

(***************************************************************************)
(* Bounds of the model.                                                    *)
(***************************************************************************)
MaxInvitations == 1     \* invitations ever created
MaxRequests == 2        \* pending requests ever created
MaxDocs == 1            \* documents ever added to one content collection
MaxOverlap == 2         \* handlers in flight at once, and rows they may add
MaxTicks == 2           \* times the clock advances
TickDays == 4           \* days the clock advances by
MaxUploads == 2         \* assets the upload service names

(***************************************************************************)
(* Values.                                                                 *)
(***************************************************************************)
UNDEF == "undefined"    \* a JavaScript undefined / an absent optional field
NoDate == 0 - 1         \* an absent or null Date field
EXPIRATION_DAYS == 7

CORE_ADMIN_EMAIL == "mjabdullah33@gmail.com"

\* String.prototype.toLowerCase on the strings of the model.
toLowerCase(s) ==
  CASE s = "MJAbdullah33@Gmail.com" -> "mjabdullah33@gmail.com"
    [] s = "Ann@X.io" -> "ann@x.io"
    [] OTHER -> s

\* JavaScript truthiness of an optional string.
Truthy(s) == s \notin {UNDEF, ""}

\* The bearer tokens of the model and what auth.verifyIdToken yields for them
\* (uid UNDEF: verification throws).
Tokens == {"tokCore", "tokAnn", "tokBob", "tokBad"}

verifyIdToken(token) ==
  CASE token = "tokCore" -> [uid |-> "uCore", email |-> "MJAbdullah33@Gmail.com"]
    [] token = "tokAnn" -> [uid |-> "uAnn", email |-> "Ann@X.io"]
    [] token = "tokBob" -> [uid |-> "uBob", email |-> "bob@x.io"]
    [] OTHER -> [uid |-> UNDEF, email |-> UNDEF]

AdminPages == {"dashboard", "profile", "about", "skills", "projects",
               "education", "experience", "faqs", "messages"}
Permissions == {"VIEW", "CREATE", "UPDATE", "DELETE"}
RequestActions == {"CREATE", "UPDATE", "DELETE"}

DEFAULT_VIEW_PERMISSIONS ==
  << [page |-> "dashboard", permissions |-> {"VIEW"}],
     [page |-> "profile", permissions |-> {"VIEW"}],
     [page |-> "about", permissions |-> {"VIEW"}],
     [page |-> "skills", permissions |-> {"VIEW"}],
     [page |-> "projects", permissions |-> {"VIEW"}],
     [page |-> "education", permissions |-> {"VIEW"}],
     [page |-> "experience", permissions |-> {"VIEW"}],
     [page |-> "faqs", permissions |-> {"VIEW"}],
     [page |-> "messages", permissions |-> {"VIEW"}] >>

VARIABLES
  now,               \* the clock, in days
  subAdmins,         \* collection 'subAdmins': a set of rows
  adminInvitations,  \* collection 'adminInvitations': a set of rows
  pendingRequests,   \* collection 'pendingRequests': a set of rows
  store,             \* content collections: name -> (document id -> fields)
  profileMain,       \* document profile/main: fields
  ids,               \* number of ids handed out, per collection
  ticks,             \* times the clock advanced
  resp,              \* the response of the last request served
  inflight           \* handlers between their reads and their writes

vars == <<now, subAdmins, adminInvitations, pendingRequests, store,
          profileMain, ids, ticks, resp, inflight>>

(***************************************************************************)
(* Helpers on collections.                                                 *)
(***************************************************************************)
Id(prefix, n) == prefix \o ToString(n)

\* Firestore's DocumentReference.update on a row of a collection held as a set.
UpdateRow(rows, id, f(_)) == {IF r.id = id THEN f(r) ELSE r : r \in rows}

Exists(rows, id) == \E r \in rows : r.id = id

Row(rows, id) == CHOOSE r \in rows : r.id = id

\* The body of a request that has none.
NoBody == [action |-> UNDEF, resourceType |-> UNDEF, resourceId |-> UNDEF,
           page |-> UNDEF, data |-> << >>]

\* The response envelope with the fields of `data` that are read here, and
\* the request it answers: the route, the bearer token, the :id parameter (or
\* the id of the document created) and the body.
Response(op, token, code, error) ==
  [op |-> op, token |-> token, code |-> code, error |-> error,
   requiresApproval |-> FALSE, hasPermission |-> FALSE,
   page |-> UNDEF, permission |-> UNDEF, role |-> "public",
   id |-> UNDEF, body |-> NoBody, actionResult |-> "null",
   inviteToken |-> UNDEF, data |-> << >>]

\* How the middleware classified the caller of a request.
RoleOf(req) ==
  IF req.code = 401 THEN "invalid"
  ELSE IF "isCoreAdmin" \notin DOMAIN req THEN "verified"
  ELSE IF req.isCoreAdmin THEN "core"
  ELSE IF req.isSubAdmin THEN "sub"
  ELSE "none"

\* The response to a request that went through an authentication middleware.
Reply(req, op, token, code, error) ==
  [Response(op, token, code, error) EXCEPT !.role = RoleOf(req)]

(***************************************************************************)
(* middleware/auth.ts and middleware/permissions.ts                        *)
(***************************************************************************)
NoSubAdmin == [id |-> UNDEF]

\* authenticateToken: the request after the middleware; code 0 is next().
authenticateToken(token) ==
  LET decodedToken == verifyIdToken(token) IN
  IF decodedToken.uid = UNDEF
    THEN [code |-> 401, error |-> "Unauthorized: Invalid token",
          uid |-> UNDEF, email |-> ""]
    ELSE [code |-> 0, error |-> "",
          uid |-> decodedToken.uid, email |-> decodedToken.email]

\* A resolver that does not look at isActive.
ActiveSubAdmins_Any(rows, userEmail) == {s \in rows : s.email = userEmail}

\* The rows the resolver's query and client-side filter keep.
ActiveSubAdmins(rows, userEmail) ==
  {s \in rows : s.email = userEmail /\ s.isActive = TRUE}

\* A resolver that looks for the sub-admin row before it compares the
\* email with the core admin's.
authenticateWithPermissions_RowFirst(rows, token, touchOk) ==
  LET decodedToken == verifyIdToken(token)
      userEmail == toLowerCase(decodedToken.email)
      blank == [code |-> 0, error |-> "", uid |-> decodedToken.uid,
                email |-> userEmail, isCoreAdmin |-> FALSE,
                isSubAdmin |-> FALSE, subAdmin |-> NoSubAdmin,
                permissions |-> << >>]
      invalid == [blank EXCEPT !.code = 401, !.uid = UNDEF, !.email = "",
                               !.error = "Unauthorized: Invalid token"]
  IN
  IF decodedToken.uid = UNDEF THEN {invalid}
  ELSE IF ActiveSubAdmins(rows, userEmail) # {}
    THEN {IF touchOk
            THEN [blank EXCEPT !.isSubAdmin = TRUE, !.subAdmin = s,
                               !.permissions = s.pagePermissions]
            ELSE invalid
          : s \in ActiveSubAdmins(rows, userEmail)}
  ELSE IF userEmail = toLowerCase(CORE_ADMIN_EMAIL)
    THEN {[blank EXCEPT !.isCoreAdmin = TRUE]}
  ELSE {[blank EXCEPT !.code = 403,
           !.error = "Access denied. You are not authorized to access this admin panel."]}

\* authenticateWithPermissions: the requests the middleware can produce
\* (one per row that `find` can return first); code 0 is next().  touchOk
\* says whether the write of lastLoginAt succeeds.
authenticateWithPermissions(rows, token, touchOk) ==
  LET decodedToken == verifyIdToken(token)
      userEmail == toLowerCase(decodedToken.email)
      coreAdminEmail == toLowerCase(CORE_ADMIN_EMAIL)
      blank == [code |-> 0, error |-> "", uid |-> decodedToken.uid,
                email |-> userEmail, isCoreAdmin |-> FALSE,
                isSubAdmin |-> FALSE, subAdmin |-> NoSubAdmin,
                permissions |-> << >>]
      invalid == [blank EXCEPT !.code = 401, !.uid = UNDEF, !.email = "",
                               !.error = "Unauthorized: Invalid token"]
  IN
  IF decodedToken.uid = UNDEF THEN {invalid}
  ELSE IF userEmail = coreAdminEmail
    THEN {[blank EXCEPT !.isCoreAdmin = TRUE]}
  ELSE IF ActiveSubAdmins(rows, userEmail) # {}
    THEN {IF touchOk
            THEN [blank EXCEPT !.isSubAdmin = TRUE, !.subAdmin = s,
                               !.permissions = s.pagePermissions]
            ELSE invalid
          : s \in ActiveSubAdmins(rows, userEmail)}
  ELSE {[blank EXCEPT !.code = 403,
           !.error = "Access denied. You are not authorized to access this admin panel."]}

\* The subAdmins collection after the middleware: lastLoginAt of the resolved
\* row is refreshed.
LoginTouch(rows, req) ==
  IF req.code = 0 /\ req.isSubAdmin
    THEN UpdateRow(rows, req.subAdmin.id, LAMBDA r : [r EXCEPT !.lastLoginAt = now])
    ELSE rows

\* requireCoreAdmin: code 0 is next().
requireCoreAdmin(req) ==
  IF ~req.isCoreAdmin
    THEN [code |-> 403, error |-> "Access denied. Only the core admin can perform this action."]
    ELSE [code |-> 0, error |-> ""]

\* The chain authenticateWithPermissions, requireCoreAdmin: what stops the
\* request before the handler, code 0 when nothing does.
CoreAdminOnly(req) ==
  IF req.code # 0 THEN [code |-> req.code, error |-> req.error]
  ELSE requireCoreAdmin(req)

\* Array.prototype.find on pagePermissions: the first entry of the page.
FindPage(permissions, page) ==
  LET hits == {i \in 1..Len(permissions) : permissions[i].page = page} IN
  IF hits = {} THEN [page |-> UNDEF, permissions |-> {}]
  ELSE permissions[CHOOSE i \in hits : \A j \in hits : i <= j]

\* A check that sends only DELETE to approval.
NeedsApproval_DeleteOnly(permission) == permission = "DELETE"

\* A check that sends nothing to approval.
NeedsApproval_Never(permission) == FALSE

\* The permissions a sub-admin holding them must still submit for approval.
NeedsApproval(permission) == permission = "UPDATE" \/ permission = "DELETE"

\* requirePermission(page, permission): the decision for a request that
\* passed authenticateWithPermissions.
requirePermission(req, page, permission) ==
  LET pagePermission == FindPage(req.permissions, page)
      deny(error, approval, has) ==
        [code |-> 403, error |-> error, requiresApproval |-> approval,
         hasPermission |-> has]
  IN
  IF req.isCoreAdmin
    THEN [code |-> 0, error |-> "", requiresApproval |-> FALSE, hasPermission |-> FALSE]
  ELSE IF ~req.isSubAdmin
    THEN deny("Access denied. No permissions found.", FALSE, FALSE)
  ELSE IF pagePermission.page = UNDEF \/ permission \notin pagePermission.permissions
    THEN IF permission = "VIEW"
           THEN deny("Access denied. You do not have permission to view " \o page \o ".", FALSE, FALSE)
           ELSE deny("You don't have " \o permission \o " permission for this page.", TRUE, FALSE)
  ELSE IF NeedsApproval(permission) /\ req.isSubAdmin
    THEN deny("You have " \o permission \o " permission, but changes require core admin approval. Please submit a request.",
              TRUE, TRUE)
  ELSE [code |-> 0, error |-> "", requiresApproval |-> FALSE, hasPermission |-> FALSE]

hasPermission(permissions, page, permission) ==
  permission \in FindPage(permissions, page).permissions

\* A middleware without the core admin's way through.
checkWritePermissionOrCreateRequest_NoCore(req, page, permission) ==
  LET pagePermission == FindPage(req.permissions, page) IN
  IF ~req.isSubAdmin \/ req.subAdmin = NoSubAdmin
    THEN [code |-> 403, error |-> "Access denied. No permissions found.",
          requiresApproval |-> FALSE, hasPermission |-> FALSE]
  ELSE IF pagePermission.page # UNDEF /\ permission \in pagePermission.permissions
    THEN [code |-> 0, error |-> "", requiresApproval |-> FALSE, hasPermission |-> FALSE]
  ELSE [code |-> 403,
        error |-> "You do not have " \o permission \o " permission for " \o page \o ". Please submit a request for approval.",
        requiresApproval |-> TRUE, hasPermission |-> FALSE]

\* checkWritePermissionOrCreateRequest(page, permission): the decision.
checkWritePermissionOrCreateRequest(req, page, permission) ==
  LET pagePermission == FindPage(req.permissions, page) IN
  IF req.isCoreAdmin
    THEN [code |-> 0, error |-> "", requiresApproval |-> FALSE, hasPermission |-> FALSE]
  ELSE IF ~req.isSubAdmin \/ req.subAdmin = NoSubAdmin
    THEN [code |-> 403, error |-> "Access denied. No permissions found.",
          requiresApproval |-> FALSE, hasPermission |-> FALSE]
  ELSE IF pagePermission.page # UNDEF /\ permission \in pagePermission.permissions
    THEN [code |-> 0, error |-> "", requiresApproval |-> FALSE, hasPermission |-> FALSE]
  ELSE [code |-> 403,
        error |-> "You do not have " \o permission \o " permission for " \o page \o ". Please submit a request for approval.",
        requiresApproval |-> TRUE, hasPermission |-> FALSE]

(***************************************************************************)
(* routes/team.ts                                                          *)
(***************************************************************************)
\* auth.getUser(uid).displayName || null
displayName(uid) == IF uid = "uAnn" THEN "Ann" ELSE "null"

generateInviteToken(n) == Id("invite-", n)

getExpirationDate(days) == now + days

\* A query that leaves out the invitations whose expiresAt has passed.
PendingInvitationsByEmail_Live(email) ==
  {i \in adminInvitations : i.email = email /\ i.status = "pending" /\ ~(now > i.expiresAt)}

\* Rows of a collection that Firestore's where(email).where(status) keeps.
PendingInvitationsByEmail(email) ==
  {i \in adminInvitations : i.email = email /\ i.status = "pending"}

\* A lookup by token alone.
InvitationsByToken_AnyStatus(token) ==
  {i \in adminInvitations : i.token = token}

PendingInvitationsByToken(token) ==
  {i \in adminInvitations : i.token = token /\ i.status = "pending"}

\* A route that lets the core admin's email through.
IsCoreAdminEmail_Never(inviteeEmail) == FALSE

\* inviteeEmail === coreAdminEmail
IsCoreAdminEmail(inviteeEmail) == inviteeEmail = toLowerCase(CORE_ADMIN_EMAIL)

\* A route that never finds an invitation expired.
Expired_Never(invitation) == FALSE

\* new Date() > invitation.expiresAt.toDate()
Expired(invitation) == now > invitation.expiresAt

\* A comparison that lets any verified identity accept.
EmailDiffers_Never(userEmail, invitation) == FALSE

\* userEmail !== invitation.email.toLowerCase()
EmailDiffers(userEmail, invitation) == userEmail # toLowerCase(invitation.email)

\* The invitation row that invite writes.
NewInvitation(req, inviteeEmail, pagePermissions, n) ==
  [id |-> Id("i", n), email |-> inviteeEmail, invitedBy |-> req.uid,
   invitedByEmail |-> req.email, status |-> "pending",
   token |-> generateInviteToken(n),
   expiresAt |-> getExpirationDate(EXPIRATION_DAYS), createdAt |-> now,
   acceptedAt |-> NoDate,
   pagePermissions |-> IF pagePermissions.given THEN pagePermissions.value
                       ELSE DEFAULT_VIEW_PERMISSIONS]

\* The profile row that accept writes.
NewSubAdmin(req, invitation, n) ==
  [id |-> Id("s", n), uid |-> req.uid, email |-> toLowerCase(req.email),
   name |-> displayName(req.uid), photoUrl |-> "null",
   invitedBy |-> invitation.invitedBy,
   invitedByEmail |-> invitation.invitedByEmail,
   isActive |-> TRUE, pagePermissions |-> invitation.pagePermissions,
   createdAt |-> now, lastLoginAt |-> now,
   disabledAt |-> NoDate, disabledReason |-> UNDEF]

\* POST /api/team/invite.  pagePermissions is [given, value]: the optional
\* field of the body.
Invite(token, email, pagePermissions) ==
  \E req \in authenticateWithPermissions(subAdmins, token, TRUE) :
    LET op == "POST /team/invite"
        gate == CoreAdminOnly(req)
        inviteeEmail == toLowerCase(email)
        n == ids.adminInvitations + 1
        invitation == NewInvitation(req, inviteeEmail, pagePermissions, n)
        fail(code, error) ==
          /\ resp' = [Reply(req, op, token, code, error) EXCEPT !.data = [email |-> email]]
          /\ UNCHANGED <<adminInvitations, ids>>
    IN
    /\ subAdmins' = LoginTouch(subAdmins, req)
    /\ UNCHANGED <<now, pendingRequests, store, profileMain, ticks, inflight>>
    /\ IF gate.code # 0 THEN fail(gate.code, gate.error)
       ELSE IF IsCoreAdminEmail(inviteeEmail)
         THEN fail(400, "Cannot invite the core admin email")
       ELSE IF \E s \in subAdmins : s.email = inviteeEmail
         THEN fail(400, "This email is already a sub-admin")
       ELSE IF PendingInvitationsByEmail(inviteeEmail) # {}
         THEN fail(400, "An invitation is already pending for this email")
       ELSE /\ n <= MaxInvitations
            /\ adminInvitations' = adminInvitations \cup {invitation}
            /\ ids' = [ids EXCEPT !.adminInvitations = n]
            /\ resp' = [Reply(req, op, token, 201, "") EXCEPT
                          !.id = invitation.id, !.inviteToken = invitation.token,
                          !.data = [email |-> email]]

\* GET /api/team/invite/verify/:token (public)
VerifyInvite(inviteToken) ==
  LET op == "GET /team/invite/verify/:token"
      answer(code, error) ==
        [Response(op, UNDEF, code, error) EXCEPT !.inviteToken = inviteToken]
  IN
  /\ UNCHANGED <<now, subAdmins, pendingRequests, store, profileMain, ticks, inflight, ids>>
  /\ IF PendingInvitationsByToken(inviteToken) = {}
       THEN /\ resp' = answer(404, "Invalid or expired invitation")
            /\ UNCHANGED adminInvitations
       ELSE \E invitation \in PendingInvitationsByToken(inviteToken) :
              IF Expired(invitation)
                THEN /\ adminInvitations' = UpdateRow(adminInvitations, invitation.id,
                                              LAMBDA r : [r EXCEPT !.status = "expired"])
                     /\ resp' = answer(400, "This invitation has expired")
                ELSE /\ resp' = [answer(200, "") EXCEPT
                                   !.id = invitation.id,
                                   !.data = [email |-> invitation.email,
                                             invitedByEmail |-> invitation.invitedByEmail,
                                             expiresAt |-> invitation.expiresAt,
                                             pagePermissions |-> invitation.pagePermissions]]
                     /\ UNCHANGED adminInvitations

\* POST /api/team/invite/accept/:token
AcceptInvite(token, inviteToken) ==
  LET op == "POST /team/invite/accept/:token"
      req == authenticateToken(token)
      userEmail == toLowerCase(req.email)
      n == ids.subAdmins + 1
      answer(code, error) ==
        [Reply(req, op, token, code, error) EXCEPT !.inviteToken = inviteToken]
      fail(code, error) ==
        /\ resp' = answer(code, error)
        /\ UNCHANGED <<adminInvitations, subAdmins, ids>>
  IN
  /\ UNCHANGED <<now, pendingRequests, store, profileMain, ticks, inflight>>
  /\ IF req.code # 0 THEN fail(req.code, req.error)
     ELSE IF PendingInvitationsByToken(inviteToken) = {}
       THEN fail(404, "Invalid or expired invitation")
     ELSE \E invitation \in PendingInvitationsByToken(inviteToken) :
       LET subAdmin == NewSubAdmin(req, invitation, n) IN
       IF Expired(invitation)
         THEN /\ adminInvitations' = UpdateRow(adminInvitations, invitation.id,
                                       LAMBDA r : [r EXCEPT !.status = "expired"])
              /\ resp' = answer(400, "This invitation has expired")
              /\ UNCHANGED <<subAdmins, ids>>
       ELSE IF EmailDiffers(userEmail, invitation)
         THEN fail(403, "This invitation was sent to a different email address")
       ELSE /\ subAdmins' = subAdmins \cup {subAdmin}
            /\ ids' = [ids EXCEPT !.subAdmins = n]
            /\ adminInvitations' = UpdateRow(adminInvitations, invitation.id,
                 LAMBDA r : [r EXCEPT !.status = "accepted", !.acceptedAt = now])
            /\ resp' = [answer(200, "") EXCEPT !.id = subAdmin.id]

\* The two routes above await each Firestore call, and no transaction spans
\* the calls: between a handler's queries and its writes other handlers run.
\* A handler whose checks passed is kept in inflight until it writes.
FreeSlot == CHOOSE k \in 1..MaxOverlap : \A h \in inflight : h.slot # k

\* A handler holds the request object the middleware filled in for it.
Handler(op, req, token, arg) ==
  [slot |-> FreeSlot, op |-> op, req |-> [f \in DOMAIN req |-> req[f]],
   token |-> token, arg |-> arg]

\* POST /api/team/invite up to its last query: the caller is the core admin,
\* the email is not the core admin's, no profile and no pending invitation
\* has it.
InviteChecked(token, email, pagePermissions) ==
  \E req \in authenticateWithPermissions(subAdmins, token, TRUE) :
    LET inviteeEmail == toLowerCase(email) IN
    /\ Cardinality(inflight) < MaxOverlap
    /\ CoreAdminOnly(req).code = 0
    /\ ~IsCoreAdminEmail(inviteeEmail)
    /\ ~\E s \in subAdmins : s.email = inviteeEmail
    /\ PendingInvitationsByEmail(inviteeEmail) = {}
    /\ subAdmins' = LoginTouch(subAdmins, req)
    /\ inflight' = inflight \cup
         {Handler("invite", req, token, [email |-> email, pagePermissions |-> pagePermissions])}
    /\ UNCHANGED <<now, adminInvitations, pendingRequests, store, profileMain, ticks, ids, resp>>

\* POST /api/team/invite from adminInvitations.add(invitation) on.
InviteAdded(h) ==
  LET n == ids.adminInvitations + 1
      invitation == NewInvitation(h.req, toLowerCase(h.arg.email), h.arg.pagePermissions, n)
  IN
  /\ h.op = "invite"
  /\ n <= MaxOverlap
  /\ adminInvitations' = adminInvitations \cup {invitation}
  /\ ids' = [ids EXCEPT !.adminInvitations = n]
  /\ resp' = [Reply(h.req, "POST /team/invite", h.token, 201, "") EXCEPT
                !.id = invitation.id, !.inviteToken = invitation.token,
                !.data = [email |-> h.arg.email]]
  /\ inflight' = inflight \ {h}
  /\ UNCHANGED <<now, subAdmins, pendingRequests, store, profileMain, ticks>>

\* POST /api/team/invite/accept/:token up to its email comparison: a pending
\* invitation has the token, it is not expired, the caller's email is its
\* email.
AcceptChecked(token, inviteToken) ==
  LET req == authenticateToken(token) IN
  /\ Cardinality(inflight) < MaxOverlap
  /\ req.code = 0
  /\ \E invitation \in PendingInvitationsByToken(inviteToken) :
       /\ ~Expired(invitation)
       /\ ~EmailDiffers(toLowerCase(req.email), invitation)
       /\ inflight' = inflight \cup
            {Handler("accept", req, token,
                     [inviteToken |-> inviteToken, invitation |-> invitation])}
  /\ UNCHANGED <<now, subAdmins, adminInvitations, pendingRequests, store, profileMain,
                 ticks, ids, resp>>

\* POST /api/team/invite/accept/:token from subAdmins.add(subAdmin) on: the
\* profile, then the update of the invitation document read before; the
\* update of a document deleted meanwhile throws, and the catch answers 500.
AcceptAdded(h) ==
  LET n == ids.subAdmins + 1
      subAdmin == NewSubAdmin(h.req, h.arg.invitation, n)
  IN
  /\ h.op = "accept"
  /\ n <= MaxOverlap
  /\ subAdmins' = subAdmins \cup {subAdmin}
  /\ ids' = [ids EXCEPT !.subAdmins = n]
  /\ adminInvitations' = UpdateRow(adminInvitations, h.arg.invitation.id,
       LAMBDA r : [r EXCEPT !.status = "accepted", !.acceptedAt = now])
  /\ resp' = IF Exists(adminInvitations, h.arg.invitation.id)
               THEN [Reply(h.req, "POST /team/invite/accept/:token", h.token, 200, "") EXCEPT
                       !.inviteToken = h.arg.inviteToken, !.id = subAdmin.id]
               ELSE [Reply(h.req, "POST /team/invite/accept/:token", h.token, 500,
                           "Failed to accept invitation") EXCEPT
                       !.inviteToken = h.arg.inviteToken]
  /\ inflight' = inflight \ {h}
  /\ UNCHANGED <<now, pendingRequests, store, profileMain, ticks>>

\* A core-admin-only route on one document of a collection: 404 when the
\* document is absent, else the write `after`.
CoreAdminRowRoute(op, token, rows, id, notFound, after) ==
  \E req \in authenticateWithPermissions(subAdmins, token, TRUE) :
    LET gate == CoreAdminOnly(req) IN
    IF gate.code # 0
      THEN /\ resp' = [Reply(req, op, token, gate.code, gate.error) EXCEPT !.id = id]
           /\ subAdmins' = LoginTouch(subAdmins, req)
           /\ adminInvitations' = adminInvitations
    ELSE IF ~Exists(rows, id)
      THEN /\ resp' = [Reply(req, op, token, 404, notFound) EXCEPT !.id = id]
           /\ UNCHANGED <<subAdmins, adminInvitations>>
    ELSE /\ resp' = [Reply(req, op, token, 200, "") EXCEPT !.id = id]
         /\ after

\* DELETE /api/team/invite/:id
RevokeInvite(token, id) ==
  /\ CoreAdminRowRoute("DELETE /team/invite/:id", token, adminInvitations, id,
       "Invitation not found",
       /\ adminInvitations' = {i \in adminInvitations : i.id # id}
       /\ UNCHANGED subAdmins)
  /\ UNCHANGED <<now, pendingRequests, store, profileMain, ticks, inflight, ids>>

\* PUT /api/team/:id/permissions
UpdatePermissions(token, id, pagePermissions) ==
  /\ CoreAdminRowRoute("PUT /team/:id/permissions", token, subAdmins, id,
       "Sub-admin not found",
       /\ subAdmins' = UpdateRow(subAdmins, id,
            LAMBDA r : [r EXCEPT !.pagePermissions = pagePermissions])
       /\ UNCHANGED adminInvitations)
  /\ UNCHANGED <<now, pendingRequests, store, profileMain, ticks, inflight, ids>>

\* PUT /api/team/:id/disable
DisableSubAdmin(token, id, reason) ==
  /\ CoreAdminRowRoute("PUT /team/:id/disable", token, subAdmins, id,
       "Sub-admin not found",
       /\ subAdmins' = UpdateRow(subAdmins, id,
            LAMBDA r : [r EXCEPT !.isActive = FALSE, !.disabledAt = now,
                                 !.disabledReason = IF Truthy(reason) THEN reason ELSE "null"])
       /\ UNCHANGED adminInvitations)
  /\ UNCHANGED <<now, pendingRequests, store, profileMain, ticks, inflight, ids>>

\* An enable that writes isActive alone.
EnableSubAdmin_ActiveOnly(token, id) ==
  /\ CoreAdminRowRoute("PUT /team/:id/enable", token, subAdmins, id,
       "Sub-admin not found",
       /\ subAdmins' = UpdateRow(subAdmins, id, LAMBDA r : [r EXCEPT !.isActive = TRUE])
       /\ UNCHANGED adminInvitations)
  /\ UNCHANGED <<now, pendingRequests, store, profileMain, ticks, inflight, ids>>

\* PUT /api/team/:id/enable
EnableSubAdmin(token, id) ==
  /\ CoreAdminRowRoute("PUT /team/:id/enable", token, subAdmins, id,
       "Sub-admin not found",
       /\ subAdmins' = UpdateRow(subAdmins, id,
            LAMBDA r : [r EXCEPT !.isActive = TRUE, !.disabledAt = NoDate,
                                 !.disabledReason = "null"])
       /\ UNCHANGED adminInvitations)
  /\ UNCHANGED <<now, pendingRequests, store, profileMain, ticks, inflight, ids>>

\* DELETE /api/team/:id
DeleteSubAdmin(token, id) ==
  /\ CoreAdminRowRoute("DELETE /team/:id", token, subAdmins, id,
       "Sub-admin not found",
       /\ subAdmins' = {r \in subAdmins : r.id # id}
       /\ UNCHANGED adminInvitations)
  /\ UNCHANGED <<now, pendingRequests, store, profileMain, ticks, inflight, ids>>

\* GET /api/team/my-permissions: the resolver's answer, observable.
MyPermissions(token, touchOk) ==
  \E req \in authenticateWithPermissions(subAdmins, token, touchOk) :
    LET op == "GET /team/my-permissions" IN
    /\ subAdmins' = LoginTouch(subAdmins, req)
    /\ UNCHANGED <<now, adminInvitations, pendingRequests, store, profileMain, ticks, inflight, ids>>
    /\ resp' = IF req.code # 0 THEN Reply(req, op, token, req.code, req.error)
               ELSE IF req.isCoreAdmin THEN [Reply(req, op, token, 200, "") EXCEPT !.id = "core"]
               ELSE IF req.isSubAdmin /\ req.subAdmin # NoSubAdmin
                 THEN [Reply(req, op, token, 200, "") EXCEPT !.id = req.subAdmin.id]
               ELSE Reply(req, op, token, 403, "Access denied")

\* Time passes.
Tick ==
  /\ ticks < MaxTicks
  /\ ticks' = ticks + 1
  /\ now' = now + TickDays
  /\ UNCHANGED <<subAdmins, adminInvitations, pendingRequests, store, profileMain, ids,
               resp, inflight>>

(***************************************************************************)
(* The content store.                                                      *)
(***************************************************************************)
\* Date values inside content documents.
DateValue(t) == Id("date-", t)

\* Firestore's update / set-with-merge of a document's fields.
Merge(doc, fields) ==
  [f \in DOMAIN doc \cup DOMAIN fields |->
     IF f \in DOMAIN fields THEN fields[f] ELSE doc[f]]

Field(doc, f) == IF f \in DOMAIN doc THEN doc[f] ELSE UNDEF

DocExists(st, collection, id) ==
  collection \in DOMAIN st /\ id \in DOMAIN st[collection]

\* collection.add: the document gets a fresh id.
AddDoc(st, collection, id, fields) ==
  [st EXCEPT ![collection] =
     [d \in DOMAIN st[collection] \cup {id} |->
        IF d = id THEN fields ELSE st[collection][d]]]

\* doc(id).update on an existing document.
UpdateDoc(st, collection, id, fields) ==
  [st EXCEPT ![collection][id] = Merge(st[collection][id], fields)]

\* doc(id).delete: no error when the document is absent.
DeleteDocs(st, collection, gone) ==
  [st EXCEPT ![collection] =
     [d \in DOMAIN st[collection] \ gone |-> st[collection][d]]]

(***************************************************************************)
(* routes/projects.ts: guarded by authenticateToken alone.                 *)
(***************************************************************************)
\* POST /api/projects
PostProject(token, body) ==
  LET op == "POST /projects"
      req == authenticateToken(token)
      n == ids.projects + 1
  IN
  /\ UNCHANGED <<now, subAdmins, adminInvitations, pendingRequests, profileMain, ticks, inflight>>
  /\ IF req.code # 0
       THEN /\ resp' = Reply(req, op, token, req.code, req.error)
            /\ UNCHANGED <<store, ids>>
       ELSE /\ n <= MaxDocs
            /\ store' = AddDoc(store, "projects", Id("d", n),
                               Merge(body, [createdAt |-> DateValue(now)]))
            /\ ids' = [ids EXCEPT !.projects = n]
            /\ resp' = [Reply(req, op, token, 201, "") EXCEPT !.id = Id("d", n)]

\* PUT /api/projects/:id
PutProject(token, id, body) ==
  LET op == "PUT /projects/:id"
      req == authenticateToken(token)
  IN
  /\ UNCHANGED <<now, subAdmins, adminInvitations, pendingRequests, profileMain, ticks, inflight, ids>>
  /\ IF req.code # 0
       THEN /\ resp' = [Reply(req, op, token, req.code, req.error) EXCEPT !.id = id]
            /\ UNCHANGED store
     ELSE IF ~DocExists(store, "projects", id)
       THEN /\ resp' = [Reply(req, op, token, 404, "Project not found") EXCEPT !.id = id]
            /\ UNCHANGED store
     ELSE /\ store' = UpdateDoc(store, "projects", id, body)
          /\ resp' = [Reply(req, op, token, 200, "") EXCEPT !.id = id]

\* DELETE /api/projects/:id
DeleteProject(token, id) ==
  LET op == "DELETE /projects/:id"
      req == authenticateToken(token)
  IN
  /\ UNCHANGED <<now, subAdmins, adminInvitations, pendingRequests, profileMain, ticks, inflight, ids>>
  /\ IF req.code # 0
       THEN /\ resp' = [Reply(req, op, token, req.code, req.error) EXCEPT !.id = id]
            /\ UNCHANGED store
     ELSE IF ~DocExists(store, "projects", id)
       THEN /\ resp' = [Reply(req, op, token, 404, "Project not found") EXCEPT !.id = id]
            /\ UNCHANGED store
     ELSE /\ store' = DeleteDocs(store, "projects", {id})
          /\ resp' = [Reply(req, op, token, 200, "") EXCEPT !.id = id]

(***************************************************************************)
(* routes/faqs.ts: guarded by authenticateWithPermissions and              *)
(* requirePermission('faqs', ...).                                         *)
(***************************************************************************)
\* The chain authenticateWithPermissions, requirePermission(page, permission):
\* the response that stops the request, code 0 when the handler runs.
PermissionGate(op, token, req, page, permission) ==
  LET decision == requirePermission(req, page, permission) IN
  IF req.code # 0 THEN Reply(req, op, token, req.code, req.error)
  ELSE [Reply(req, op, token, decision.code, decision.error)
          EXCEPT !.requiresApproval = decision.requiresApproval,
                 !.hasPermission = decision.hasPermission,
                 !.page = page, !.permission = permission]

\* POST /api/faqs
PostFaq(token, body) ==
  \E req \in authenticateWithPermissions(subAdmins, token, TRUE) :
    LET op == "POST /faqs"
        gate == PermissionGate(op, token, req, "faqs", "CREATE")
        n == ids.faqs + 1
    IN
    /\ subAdmins' = LoginTouch(subAdmins, req)
    /\ UNCHANGED <<now, adminInvitations, pendingRequests, profileMain, ticks, inflight>>
    /\ IF gate.code # 0
         THEN resp' = gate /\ UNCHANGED <<store, ids>>
         ELSE /\ n <= MaxDocs
              /\ store' = AddDoc(store, "faqs", Id("d", n), body)
              /\ ids' = [ids EXCEPT !.faqs = n]
              /\ resp' = [Reply(req, op, token, 201, "") EXCEPT !.id = Id("d", n)]

\* PUT /api/faqs/:id
PutFaq(token, id, body) ==
  \E req \in authenticateWithPermissions(subAdmins, token, TRUE) :
    LET op == "PUT /faqs/:id"
        gate == PermissionGate(op, token, req, "faqs", "UPDATE")
    IN
    /\ subAdmins' = LoginTouch(subAdmins, req)
    /\ UNCHANGED <<now, adminInvitations, pendingRequests, profileMain, ticks, inflight, ids>>
    /\ IF gate.code # 0
         THEN resp' = [gate EXCEPT !.id = id] /\ UNCHANGED store
       ELSE IF ~DocExists(store, "faqs", id)
         THEN /\ resp' = [Reply(req, op, token, 500, "Failed to update FAQ") EXCEPT !.id = id]
              /\ UNCHANGED store
       ELSE /\ store' = UpdateDoc(store, "faqs", id, body)
            /\ resp' = [Reply(req, op, token, 200, "") EXCEPT !.id = id]

\* DELETE /api/faqs/:id
DeleteFaq(token, id) ==
  \E req \in authenticateWithPermissions(subAdmins, token, TRUE) :
    LET op == "DELETE /faqs/:id"
        gate == PermissionGate(op, token, req, "faqs", "DELETE")
    IN
    /\ subAdmins' = LoginTouch(subAdmins, req)
    /\ UNCHANGED <<now, adminInvitations, pendingRequests, profileMain, ticks, inflight, ids>>
    /\ IF gate.code # 0
         THEN resp' = [gate EXCEPT !.id = id] /\ UNCHANGED store
         ELSE /\ store' = DeleteDocs(store, "faqs", {id})
              /\ resp' = [Reply(req, op, token, 200, "") EXCEPT !.id = id]

\* Any route behind authenticateWithPermissions and requirePermission(page,
\* permission), up to the call of its handler.
RequirePermissionRoute(token, touchOk, page, permission) ==
  \E req \in authenticateWithPermissions(subAdmins, token, touchOk) :
    /\ subAdmins' = LoginTouch(subAdmins, req)
    /\ resp' = PermissionGate("requirePermission", token, req, page, permission)
    /\ UNCHANGED <<now, adminInvitations, pendingRequests, store, profileMain, ticks, inflight, ids>>

\* Any route behind authenticateWithPermissions and
\* checkWritePermissionOrCreateRequest(page, permission), up to its handler.
CheckWriteRoute(token, page, permission) ==
  \E req \in authenticateWithPermissions(subAdmins, token, TRUE) :
    LET op == "checkWritePermissionOrCreateRequest"
        decision == checkWritePermissionOrCreateRequest(req, page, permission)
    IN
    /\ subAdmins' = LoginTouch(subAdmins, req)
    /\ resp' = IF req.code # 0 THEN Reply(req, op, token, req.code, req.error)
               ELSE [Reply(req, op, token, decision.code, decision.error)
                       EXCEPT !.requiresApproval = decision.requiresApproval,
                              !.hasPermission = decision.hasPermission,
                              !.page = page, !.permission = permission]
    /\ UNCHANGED <<now, adminInvitations, pendingRequests, store, profileMain, ticks, inflight, ids>>

(***************************************************************************)
(* routes/files.ts and config/cloudinary.ts                                *)
(***************************************************************************)
\* req.file after upload.single: none, or the type and name of a file that
\* multer's fileFilter lets through.
NoFile == [mimetype |-> UNDEF, originalname |-> UNDEF]

CvFiles ==
  {NoFile, [mimetype |-> "application/pdf", originalname |-> "cv.pdf"],
   [mimetype |-> "image/png", originalname |-> "cv.png"]}

\* uploadToCloudinary(buffer, folder, resourceType): the asset is stored
\* outside the collections; the service names it, here as its n-th asset, and
\* the result carries its url and public id.
uploadToCloudinary(folder, n) ==
  [url |-> "https://res.cloudinary.com/portfolio/" \o folder \o "/" \o Id("a", n),
   publicId |-> "portfolio/" \o folder \o "/" \o Id("a", n)]

\* POST /api/files/cv.  The asset uploaded shows in data.cvUrl of the
\* response.
UploadCv(token, touchOk, file) ==
  \E req \in authenticateWithPermissions(subAdmins, token, touchOk) :
    LET op == "POST /files/cv"
        gate == PermissionGate(op, token, req, "profile", "UPDATE")
        k == ids.pendingRequests + 1
        fail(code, error) ==
          /\ resp' = Reply(req, op, token, code, error)
          /\ UNCHANGED <<pendingRequests, profileMain, ids>>
    IN
    /\ subAdmins' = LoginTouch(subAdmins, req)
    /\ UNCHANGED <<now, adminInvitations, store, ticks, inflight>>
    /\ IF gate.code # 0
         THEN resp' = gate /\ UNCHANGED <<pendingRequests, profileMain, ids>>
       ELSE IF file = NoFile THEN fail(400, "No file uploaded")
       ELSE IF file.mimetype # "application/pdf" THEN fail(400, "CV must be a PDF file")
       ELSE IF req.isSubAdmin
         THEN \E n \in 1..MaxUploads :
                LET result == uploadToCloudinary("cv-pending", n)
                    pendingRequest ==
                      [id |-> Id("r", k), action |-> "UPDATE", resourceType |-> "cvUpload",
                       resourceName |-> file.originalname, page |-> "profile",
                       data |-> [cvUrl |-> result.url, cvPublicId |-> result.publicId,
                                 cvFileName |-> file.originalname],
                       requestedBy |-> req.subAdmin.email,
                       requestedByName |-> IF Truthy(req.subAdmin.name)
                                             THEN req.subAdmin.name ELSE "Sub Admin",
                       status |-> "pending", createdAt |-> now]
                IN
                /\ k <= MaxRequests
                /\ pendingRequests' = pendingRequests \cup {pendingRequest}
                /\ ids' = [ids EXCEPT !.pendingRequests = k]
                /\ profileMain' = profileMain
                /\ resp' = [Reply(req, op, token, 200, "") EXCEPT
                              !.id = pendingRequest.id,
                              !.data = [cvUrl |-> result.url, requiresApproval |-> TRUE]]
       ELSE \E n \in 1..MaxUploads :
              LET result == uploadToCloudinary("cv", n) IN
              /\ profileMain' =
                   Merge(profileMain,
                         [cvUrl |-> result.url, cvPublicId |-> result.publicId,
                          cvFileName |-> file.originalname, updatedAt |-> DateValue(now)])
              /\ UNCHANGED <<pendingRequests, ids>>
              /\ resp' = [Reply(req, op, token, 200, "") EXCEPT
                            !.data = [cvUrl |-> result.url]]

(***************************************************************************)
(* routes/requests.ts                                                      *)
(***************************************************************************)
SpecialProfileTypes ==
  {"aboutProfile", "cvUpload", "homeAvatarUpload", "aboutAvatarUpload",
   "homeAvatarCropUpdate", "aboutAvatarCropUpdate"}

\* The fields of request.data a special resource type copies to profile/main
\* (aboutProfile spreads all of request.data).
SpecialFields(resourceType, data) ==
  CASE resourceType = "aboutProfile" -> DOMAIN data
    [] resourceType = "cvUpload" -> {"cvUrl", "cvPublicId", "cvFileName"}
    [] resourceType = "homeAvatarUpload" -> {"homeAvatarUrl", "homeAvatarPublicId"}
    [] resourceType = "aboutAvatarUpload" -> {"aboutAvatarUrl", "aboutAvatarPublicId"}
    [] resourceType = "homeAvatarCropUpdate" -> {"homeAvatarCrop"}
    [] resourceType = "aboutAvatarCropUpdate" -> {"aboutAvatarCrop"}

\* collectionMap[resourceType], UNDEF when the type has no entry.
collectionMap(resourceType) ==
  CASE resourceType = "profile" -> "profile"
    [] resourceType = "stat" -> "stats"
    [] resourceType = "contactInfo" -> "contactInfo"
    [] resourceType = "socialLink" -> "socialLinks"
    [] resourceType = "skillCategory" -> "skillCategories"
    [] resourceType = "additionalSkill" -> "additionalSkills"
    [] resourceType = "toolTechnology" -> "toolsTechnologies"
    [] resourceType = "project" -> "projects"
    [] resourceType = "education" -> "education"
    [] resourceType = "workExperience" -> "workExperience"
    [] resourceType = "certification" -> "certifications"
    [] resourceType = "coreValue" -> "coreValues"
    [] resourceType = "interest" -> "interests"
    [] resourceType = "learningGoal" -> "learningGoals"
    [] resourceType = "funFact" -> "funFacts"
    [] resourceType = "faq" -> "faqs"
    [] resourceType = "message" -> "messages"
    [] OTHER -> UNDEF

Collections ==
  {"profile", "stats", "contactInfo", "socialLinks", "skillCategories",
   "additionalSkills", "toolsTechnologies", "projects", "education",
   "workExperience", "certifications", "coreValues", "interests",
   "learningGoals", "funFacts", "faqs", "messages"}

\* An UPDATE that writes the timestamp and leaves request.data out.
UpdateFields_StampOnly(request) == "updatedAt" :> DateValue(now)

\* The fields the generic UPDATE writes: {...request.data, updatedAt: new Date()}.
UpdateFields(request) == Merge(request.data, "updatedAt" :> DateValue(now))

\* The fields a reorder item writes to its document.
ItemFields(item) ==
  Merge([f \in DOMAIN item \ {"id"} |-> item[f]], "updatedAt" :> DateValue(now))

\* Updates written one document at a time: those before the first missing
\* document stay.
BatchUpdate_OneByOne(st, coll, items) ==
  LET missing == {i \in 1..Len(items) : ~DocExists(st, coll, items[i].id)}
      done == {i \in 1..Len(items) : \A j \in missing : i < j}
      touched == {items[i].id : i \in done}
      last(id) == CHOOSE i \in done :
                    items[i].id = id /\ \A j \in done : items[j].id = id => j <= i
  IN [committed |-> missing = {},
      store |-> [st EXCEPT ![coll] =
                   [d \in DOMAIN st[coll] |->
                      IF d \in touched THEN Merge(st[coll][d], ItemFields(items[last(d)]))
                      ELSE st[coll][d]]]]

\* db.batch() with one update per item, then commit(): all the updates are
\* written, in order (the last one for an id wins), or, when a document is
\* missing, the commit throws and none is.
BatchUpdate(st, coll, items) ==
  LET touched == {items[i].id : i \in 1..Len(items)}
      last(id) == CHOOSE i \in 1..Len(items) :
                    /\ items[i].id = id
                    /\ \A j \in 1..Len(items) : items[j].id = id => j <= i
  IN IF \A id \in touched : DocExists(st, coll, id)
       THEN [committed |-> TRUE,
             store |-> [st EXCEPT ![coll] =
                          [d \in DOMAIN st[coll] |->
                             IF d \in touched
                               THEN Merge(st[coll][d], ItemFields(items[last(d)]))
                               ELSE st[coll][d]]]]
       ELSE [committed |-> FALSE, store |-> st]

\* executeApprovedRequest(request) on the store st, the document profile/main
\* pm and the id counters idc: the result and what it leaves behind.  An
\* exception inside the function is the result 'Failed to execute request'.
executeApprovedRequest(request, st, pm, idc) ==
  LET data == request.data
      out(success, message, st2, pm2, idc2) ==
        [success |-> success, message |-> message, store |-> st2,
         profileMain |-> pm2, ids |-> idc2]
      failed(message) == out(FALSE, message, st, pm, idc)
      thrown == failed("Failed to execute request")
      stamp(field) == field :> DateValue(now)
      collection == collectionMap(request.resourceType)
      n == idc[collection] + 1
  IN
  IF request.resourceType \in SpecialProfileTypes
    THEN IF request.action = "UPDATE"
           THEN LET fields == SpecialFields(request.resourceType, data) IN
                IF \E f \in fields : f \notin DOMAIN data
                  THEN thrown    \* set() of an undefined field value
                  ELSE out(TRUE, "Applied " \o request.resourceType, st,
                           Merge(pm, Merge([f \in fields |-> data[f]], stamp("updatedAt"))),
                           idc)
           ELSE failed("Invalid action for " \o request.resourceType)
  ELSE IF request.resourceType = "reorder"
    THEN IF {"collection", "items"} \subseteq DOMAIN data
           THEN LET batch == BatchUpdate(st, data.collection, data.items) IN
                \* a thrown commit leaves through the catch; the store keeps
                \* whatever the batch wrote
                IF batch.committed
                  THEN out(TRUE, "Reordered items", batch.store, pm, idc)
                  ELSE out(FALSE, "Failed to execute request", batch.store, pm, idc)
           ELSE thrown
  ELSE IF collection = UNDEF
    THEN failed("Unknown resource type: " \o request.resourceType)
  ELSE IF request.action = "CREATE"
    THEN out(TRUE, "Created " \o request.resourceType,
             AddDoc(st, collection, Id("d", n), Merge(data, stamp("createdAt"))),
             pm, [idc EXCEPT ![collection] = n])
  ELSE IF request.action = "UPDATE"
    THEN IF ~Truthy(request.resourceId) THEN failed("Resource ID required for update")
         ELSE IF ~DocExists(st, collection, request.resourceId) THEN thrown
         ELSE out(TRUE, "Updated " \o request.resourceType,
                  UpdateDoc(st, collection, request.resourceId, UpdateFields(request)),
                  pm, idc)
  ELSE IF request.action = "DELETE"
    THEN IF request.resourceType = "message" /\ "ids" \in DOMAIN data
           THEN out(TRUE, "Deleted messages",
                    DeleteDocs(st, collection, {data.ids[i] : i \in 1..Len(data.ids)}),
                    pm, idc)
         ELSE IF ~Truthy(request.resourceId) THEN failed("Resource ID required for delete")
         ELSE out(TRUE, "Deleted " \o request.resourceType,
                  DeleteDocs(st, collection, {request.resourceId}), pm, idc)
  ELSE failed("Unknown action")

\* A duplicate check that looks only at requests naming the same resourceId.
DuplicateRequests_ById(rows, subAdminId, action, resourceType, page, resourceId) ==
  {r \in rows :
     /\ r.subAdminId = subAdminId /\ r.status = "pending"
     /\ r.action = action /\ r.resourceType = resourceType /\ r.page = page
     /\ Truthy(resourceId) /\ r.resourceId = resourceId}

\* The pending requests of a sub-admin that the duplicate check of
\* POST /api/requests matches.
DuplicateRequests(rows, subAdminId, action, resourceType, page, resourceId) ==
  {r \in rows :
     /\ r.subAdminId = subAdminId /\ r.status = "pending"
     /\ r.action = action /\ r.resourceType = resourceType /\ r.page = page
     /\ (~Truthy(resourceId) \/ r.resourceId = resourceId)}

\* A route that takes the submitter's id from the body when the body names one.
Submitter_FromBody(req, body) ==
  [subAdminId |-> IF "subAdminId" \in DOMAIN body THEN body.subAdminId
                  ELSE req.subAdmin.id,
   subAdminEmail |-> req.subAdmin.email, subAdminName |-> req.subAdmin.name]

\* The identity fields of a new request: those of req.subAdmin.  The body is
\* read through createRequestSchema, which has no such fields.
Submitter(req, body) ==
  [subAdminId |-> req.subAdmin.id, subAdminEmail |-> req.subAdmin.email,
   subAdminName |-> req.subAdmin.name]

\* The row that submit stores.
NewRequest(req, body, n) ==
  [id |-> Id("r", n), subAdminId |-> Submitter(req, body).subAdminId,
   subAdminEmail |-> Submitter(req, body).subAdminEmail,
   subAdminName |-> Submitter(req, body).subAdminName,
   action |-> body.action, resourceType |-> body.resourceType,
   page |-> body.page, data |-> body.data, status |-> "pending",
   createdAt |-> now,
   resourceId |-> IF Truthy(body.resourceId) THEN body.resourceId ELSE UNDEF,
   processedAt |-> NoDate, processedBy |-> UNDEF, rejectionReason |-> UNDEF]

\* An insert that the store refuses when a pending request has the same key.
InsertRequest_Unique(rows, row) ==
  IF DuplicateRequests(rows, row.subAdminId, row.action, row.resourceType, row.page,
                       row.resourceId) # {}
    THEN rows ELSE rows \cup {row}

\* collection.add(pendingRequest): the store takes every row.
InsertRequest(rows, row) == rows \cup {row}

\* createRequestSchema.safeParse(body), for the two enums of the schema.
createRequestSchema(body) ==
  IF body.action \notin RequestActions
    THEN [success |-> FALSE,
          message |-> "Invalid enum value. Expected 'CREATE' | 'UPDATE' | 'DELETE', received '"
                        \o body.action \o "'"]
  ELSE IF body.page \notin AdminPages
    THEN [success |-> FALSE,
          message |-> "Invalid enum value. Expected 'dashboard' | 'profile' | 'about' | 'skills' | 'projects' | 'education' | 'experience' | 'faqs' | 'messages', received '"
                        \o body.page \o "'"]
  ELSE [success |-> TRUE, message |-> ""]

\* A route that also asks for the permission on the page of the request.
SubmitGate_Permitted(req, body) ==
  LET validation == createRequestSchema(body) IN
  IF req.isCoreAdmin
    THEN [code |-> 400, error |-> "Core admin does not need to create requests"]
  ELSE IF ~req.isSubAdmin \/ req.subAdmin = NoSubAdmin
    THEN [code |-> 403, error |-> "Only sub-admins can create requests"]
  ELSE IF ~validation.success
    THEN [code |-> 400, error |-> validation.message]
  ELSE IF ~hasPermission(req.permissions, body.page, body.action)
    THEN [code |-> 403, error |-> "You don't have " \o body.action \o " permission for this page."]
  ELSE [code |-> 0, error |-> ""]

\* What POST /api/requests checks of the caller and the body before it reads
\* the pending requests, code 0 when nothing stops the request.
SubmitGate(req, body) ==
  LET validation == createRequestSchema(body) IN
  IF req.isCoreAdmin
    THEN [code |-> 400, error |-> "Core admin does not need to create requests"]
  ELSE IF ~req.isSubAdmin \/ req.subAdmin = NoSubAdmin
    THEN [code |-> 403, error |-> "Only sub-admins can create requests"]
  ELSE IF ~validation.success
    THEN [code |-> 400, error |-> validation.message]
  ELSE [code |-> 0, error |-> ""]

\* POST /api/requests.  body: [action, resourceType, resourceId, page, data].
SubmitRequest(token, body) ==
  \E req \in authenticateWithPermissions(subAdmins, token, TRUE) :
    LET op == "POST /requests"
        n == ids.pendingRequests + 1
        gate == SubmitGate(req, body)
        pendingRequest == NewRequest(req, body, n)
        fail(code, error) ==
          /\ resp' = [Reply(req, op, token, code, error) EXCEPT !.body = body]
          /\ UNCHANGED <<pendingRequests, ids>>
    IN
    /\ subAdmins' = LoginTouch(subAdmins, req)
    /\ UNCHANGED <<now, adminInvitations, store, profileMain, ticks, inflight>>
    /\ IF req.code # 0 THEN fail(req.code, req.error)
       ELSE IF gate.code # 0 THEN fail(gate.code, gate.error)
       ELSE IF DuplicateRequests(pendingRequests, req.subAdmin.id, body.action,
                                 body.resourceType, body.page, body.resourceId) # {}
         THEN fail(400, "A similar request is already pending")
       ELSE /\ n <= MaxRequests
            /\ pendingRequests' = InsertRequest(pendingRequests, pendingRequest)
            /\ ids' = [ids EXCEPT !.pendingRequests = n]
            /\ resp' = [Reply(req, op, token, 201, "") EXCEPT
                          !.id = pendingRequest.id, !.body = body]

\* A route without the check of the request's status.
AlreadyProcessed_Never(requestData) == FALSE

\* A route that also refuses the request of a sub-admin who has no active
\* profile any more or no longer holds the permission asked for.
AlreadyProcessed_OrSubmitterGone(requestData) ==
  \/ requestData.status # "pending"
  \/ ~\E s \in subAdmins :
        /\ s.id = requestData.subAdminId /\ s.isActive
        /\ hasPermission(s.pagePermissions, requestData.page, requestData.action)

\* The check that refuses a request already decided.
AlreadyProcessed(requestData) == requestData.status # "pending"

\* updateData of the process route, applied to the stored request.
updateData(r, status, uid, rejectionReason) ==
  [r EXCEPT !.status = status, !.processedAt = now, !.processedBy = uid,
            !.rejectionReason = IF status = "rejected" /\ Truthy(rejectionReason)
                                  THEN rejectionReason ELSE r.rejectionReason]

\* A route that executes whatever the decision.
ExecutionRuns_Always(status) == TRUE

\* Whether the process route calls executeApprovedRequest.
ExecutionRuns(status) == status = "approved"

\* A route that returns the request to pending when its execution fails.
AfterExecution_RollBack(r, result) ==
  IF result.success THEN r ELSE [r EXCEPT !.status = "pending"]

\* The stored request once executeApprovedRequest has returned: the route
\* writes nothing more to it, whatever the result.
AfterExecution(r, result) == r

\* actionResult of the response.
ActionResult(result) == IF result.success THEN "success" ELSE result.message

\* PUT /api/requests/:id/process
ProcessRequest(token, id, status, rejectionReason) ==
  \E req \in authenticateWithPermissions(subAdmins, token, TRUE) :
    LET op == "PUT /requests/:id/process"
        gate == CoreAdminOnly(req)
        requestData == Row(pendingRequests, id)
        result == executeApprovedRequest(requestData, store, profileMain, ids)
        reply(code, error) ==
          [Reply(req, op, token, code, error) EXCEPT
             !.id = id,
             !.body = [NoBody EXCEPT !.action = status,
                                     !.data = [rejectionReason |-> rejectionReason]]]
        fail(code, error) ==
          /\ resp' = reply(code, error)
          /\ UNCHANGED <<pendingRequests, store, profileMain, ids>>
    IN
    /\ subAdmins' = LoginTouch(subAdmins, req)
    /\ UNCHANGED <<now, adminInvitations, ticks, inflight>>
    /\ IF gate.code # 0 THEN fail(gate.code, gate.error)
       ELSE IF ~Exists(pendingRequests, id) THEN fail(404, "Request not found")
       ELSE IF AlreadyProcessed(requestData)
         THEN fail(400, "This request has already been processed")
       ELSE IF ExecutionRuns(status)
         THEN /\ \A c \in Collections : result.ids[c] # ids[c] => result.ids[c] <= MaxDocs
              /\ pendingRequests' =
                   UpdateRow(pendingRequests, id,
                     LAMBDA r : AfterExecution(updateData(r, status, req.uid, rejectionReason),
                                               result))
              /\ store' = result.store
              /\ profileMain' = result.profileMain
              /\ ids' = result.ids
              /\ resp' = [reply(200, "") EXCEPT !.actionResult = ActionResult(result)]
         ELSE /\ pendingRequests' =
                   UpdateRow(pendingRequests, id,
                     LAMBDA r : updateData(r, status, req.uid, rejectionReason))
              /\ UNCHANGED <<store, profileMain, ids>>
              /\ resp' = reply(200, "")

\* A route that checks the status and not the owner.
DeleteRefusal_StatusOnly(req, requestData) ==
  IF req.isCoreAdmin THEN [code |-> 0, error |-> ""]
  ELSE IF requestData.status # "pending"
    THEN [code |-> 400, error |-> "Cannot delete processed requests"]
  ELSE [code |-> 0, error |-> ""]

\* What stops the delete of a stored request; code 0 when nothing does.
DeleteRefusal(req, requestData) ==
  IF req.isCoreAdmin THEN [code |-> 0, error |-> ""]
  ELSE IF ~req.isSubAdmin \/ req.subAdmin = NoSubAdmin
          \/ req.subAdmin.id # requestData.subAdminId
    THEN [code |-> 403, error |-> "You can only delete your own requests"]
  ELSE IF requestData.status # "pending"
    THEN [code |-> 400, error |-> "Cannot delete processed requests"]
  ELSE [code |-> 0, error |-> ""]

\* DELETE /api/requests/:id
DeleteRequest(token, id) ==
  \E req \in authenticateWithPermissions(subAdmins, token, TRUE) :
    LET op == "DELETE /requests/:id"
        requestData == Row(pendingRequests, id)
        fail(code, error) ==
          /\ resp' = [Reply(req, op, token, code, error) EXCEPT !.id = id]
          /\ UNCHANGED pendingRequests
    IN
    /\ subAdmins' = LoginTouch(subAdmins, req)
    /\ UNCHANGED <<now, adminInvitations, store, profileMain, ticks, inflight, ids>>
    /\ IF req.code # 0 THEN fail(req.code, req.error)
       ELSE IF ~Exists(pendingRequests, id) THEN fail(404, "Request not found")
       ELSE IF DeleteRefusal(req, requestData).code # 0
         THEN fail(DeleteRefusal(req, requestData).code, DeleteRefusal(req, requestData).error)
       ELSE /\ pendingRequests' = {r \in pendingRequests : r.id # id}
            /\ resp' = [Reply(req, op, token, 200, "") EXCEPT !.id = id]

\* The submit and process routes await each Firestore call without a
\* transaction, like the team routes: a handler whose checks passed is kept
\* in inflight until it writes.

\* POST /api/requests up to its duplicate query.
SubmitChecked(token, body) ==
  \E req \in authenticateWithPermissions(subAdmins, token, TRUE) :
    /\ Cardinality(inflight) < MaxOverlap
    /\ req.code = 0
    /\ SubmitGate(req, body).code = 0
    /\ DuplicateRequests(pendingRequests, req.subAdmin.id, body.action,
                         body.resourceType, body.page, body.resourceId) = {}
    /\ subAdmins' = LoginTouch(subAdmins, req)
    /\ inflight' = inflight \cup {Handler("submit", req, token, [body |-> body])}
    /\ UNCHANGED <<now, adminInvitations, pendingRequests, store, profileMain, ticks, ids,
                   resp>>

\* POST /api/requests from pendingRequests.add(pendingRequest) on.
SubmitAdded(h) ==
  LET n == ids.pendingRequests + 1
      pendingRequest == NewRequest(h.req, h.arg.body, n)
  IN
  /\ h.op = "submit"
  /\ n <= MaxRequests
  /\ pendingRequests' = InsertRequest(pendingRequests, pendingRequest)
  /\ ids' = [ids EXCEPT !.pendingRequests = n]
  /\ resp' = [Reply(h.req, "POST /requests", h.token, 201, "") EXCEPT
                !.id = pendingRequest.id, !.body = h.arg.body]
  /\ inflight' = inflight \ {h}
  /\ UNCHANGED <<now, subAdmins, adminInvitations, store, profileMain, ticks>>

\* PUT /api/requests/:id/process up to its status check: the caller is the
\* core admin, the request exists and its status is pending.
ProcessChecked(token, id, status, rejectionReason) ==
  \E req \in authenticateWithPermissions(subAdmins, token, TRUE) :
    /\ Cardinality(inflight) < MaxOverlap
    /\ CoreAdminOnly(req).code = 0
    /\ Exists(pendingRequests, id)
    /\ ~AlreadyProcessed(Row(pendingRequests, id))
    /\ subAdmins' = LoginTouch(subAdmins, req)
    /\ inflight' = inflight \cup
         {Handler("process", req, token,
                  [id |-> id, status |-> status, rejectionReason |-> rejectionReason,
                   requestData |-> Row(pendingRequests, id)])}
    /\ UNCHANGED <<now, adminInvitations, pendingRequests, store, profileMain, ticks, ids,
                   resp>>

\* PUT /api/requests/:id/process from requestRef.update(updateData) on: the
\* update (it throws, and the catch answers 500, when the document was
\* deleted meanwhile), then executeApprovedRequest on the request as read.
ProcessWritten(h) ==
  LET op == "PUT /requests/:id/process"
      id == h.arg.id
      status == h.arg.status
      result == executeApprovedRequest(h.arg.requestData, store, profileMain, ids)
      reply(code, error) ==
        [Reply(h.req, op, h.token, code, error) EXCEPT
           !.id = id,
           !.body = [NoBody EXCEPT !.action = status,
                                   !.data = [rejectionReason |-> h.arg.rejectionReason]]]
  IN
  /\ h.op = "process"
  /\ inflight' = inflight \ {h}
  /\ UNCHANGED <<now, subAdmins, adminInvitations, ticks>>
  /\ IF ~Exists(pendingRequests, id)
       THEN /\ resp' = reply(500, "Failed to process request")
            /\ UNCHANGED <<pendingRequests, store, profileMain, ids>>
     ELSE IF ExecutionRuns(status)
       THEN /\ \A c \in Collections : result.ids[c] # ids[c] => result.ids[c] <= MaxDocs
            /\ pendingRequests' =
                 UpdateRow(pendingRequests, id,
                   LAMBDA r : AfterExecution(updateData(r, status, h.req.uid,
                                                        h.arg.rejectionReason), result))
            /\ store' = result.store
            /\ profileMain' = result.profileMain
            /\ ids' = result.ids
            /\ resp' = [reply(200, "") EXCEPT !.actionResult = ActionResult(result)]
       ELSE /\ pendingRequests' =
                 UpdateRow(pendingRequests, id,
                   LAMBDA r : updateData(r, status, h.req.uid, h.arg.rejectionReason))
            /\ UNCHANGED <<store, profileMain, ids>>
            /\ resp' = reply(200, "")

(***************************************************************************)
(* The requests of the model.                                              *)
(***************************************************************************)
InviteEmails == {"Ann@X.io", "bob@x.io", "MJAbdullah33@Gmail.com"}

PP_ViewCreate ==
  << [page |-> "projects", permissions |-> {"VIEW", "CREATE"}],
     [page |-> "faqs", permissions |-> {"VIEW", "CREATE"}] >>

PP_Write ==
  << [page |-> "projects", permissions |-> {"VIEW", "UPDATE"}],
     [page |-> "faqs", permissions |-> {"VIEW", "CREATE", "UPDATE", "DELETE"}] >>

\* Two entries for one page: find() reads the first.
PP_Twice ==
  << [page |-> "faqs", permissions |-> {"VIEW"}],
     [page |-> "faqs", permissions |-> {"DELETE"}] >>

PagePermissionInputs == {PP_ViewCreate, PP_Write, PP_Twice}

InvitePermissionInputs ==
  {[given |-> FALSE, value |-> << >>]}
    \cup {[given |-> TRUE, value |-> pp] : pp \in PagePermissionInputs}

GuardedPages == {"projects", "faqs", "messages"}

RowIds(prefix, max) == {Id(prefix, n) : n \in 1..max}

InviteTokens == {generateInviteToken(n) : n \in 1..MaxInvitations} \cup {"invite-none"}

\* A body that passes projectSchema.
ProjectBodies ==
  {[title |-> "A", description |-> "a", technologies |-> <<"ts">>,
    featured |-> FALSE, order |-> 0]}

\* A body that passes faqSchema.
FaqBodies == {[question |-> "Q", answer |-> "A", order |-> 0]}

DisableReasons == {UNDEF, "left"}

RejectionReasons == {UNDEF, "", "no"}

RequestBodies ==
  { [action |-> "UPDATE", resourceType |-> "project", resourceId |-> "d1",
     page |-> "projects", data |-> [title |-> "C"]],
    [action |-> "UPDATE", resourceType |-> "project", resourceId |-> "d1",
     page |-> "projects", data |-> [title |-> "D", updatedAt |-> "then"]],
    [action |-> "UPDATE", resourceType |-> "project", resourceId |-> UNDEF,
     page |-> "projects", data |-> [title |-> "C"]],
    [action |-> "DELETE", resourceType |-> "project", resourceId |-> "d1",
     page |-> "projects", data |-> << >>],
    [action |-> "UPDATE", resourceType |-> "aboutProfile", resourceId |-> UNDEF,
     page |-> "about", data |-> [bio |-> "hello"]],
    [action |-> "UPDATE", resourceType |-> "gallery", resourceId |-> "d1",
     page |-> "projects", data |-> [title |-> "C"]],
    [action |-> "DELETE", resourceType |-> "aboutProfile", resourceId |-> UNDEF,
     page |-> "about", data |-> << >>] }

(***************************************************************************)
(* The specification.                                                      *)
(***************************************************************************)
Init ==
  /\ now = 0
  /\ ticks = 0
  /\ subAdmins = {}
  /\ adminInvitations = {}
  /\ pendingRequests = {}
  /\ store = [c \in Collections |-> << >>]
  /\ profileMain = << >>
  /\ ids = [c \in Collections \cup {"adminInvitations", "subAdmins", "pendingRequests"} |-> 0]
  /\ resp = Response("none", UNDEF, 0, "")
  /\ inflight = {}

\* The approval workflow: a sub-admin joins the team, the project routes, and
\* the pending requests with their processing.
WorkflowTokens == {"tokCore", "tokAnn"}

Next ==
  \/ Invite("tokCore", "Ann@X.io", [given |-> TRUE, value |-> PP_Write])
  \/ \E it \in InviteTokens : AcceptInvite("tokAnn", it)
  \/ \E t \in WorkflowTokens, b \in ProjectBodies : PostProject(t, b)
  \/ \E t \in WorkflowTokens, id \in RowIds("d", MaxDocs), b \in ProjectBodies :
       PutProject(t, id, b)
  \/ \E t \in WorkflowTokens, id \in RowIds("d", MaxDocs) : DeleteProject(t, id)
  \/ \E t \in WorkflowTokens, b \in RequestBodies : SubmitRequest(t, b)
  \/ \E t \in WorkflowTokens, id \in RowIds("r", MaxRequests),
        st \in {"approved", "rejected"}, rr \in RejectionReasons :
       ProcessRequest(t, id, st, rr)
  \/ \E t \in WorkflowTokens, id \in RowIds("r", MaxRequests) : DeleteRequest(t, id)

Spec == Init /\ [][Next]_vars

(***************************************************************************)
(* The approval workflow (specification Spec).                             *)
(***************************************************************************)
\* The bearer of the token is, in the current state, an active sub-admin and
\* not the core admin.
ByActiveSubAdmin(token) ==
  LET decodedToken == verifyIdToken(token)
      userEmail == toLowerCase(decodedToken.email)
  IN /\ decodedToken.uid # UNDEF
     /\ userEmail # CORE_ADMIN_EMAIL
     /\ ActiveSubAdmins(subAdmins, userEmail) # {}

ProcessOp == "PUT /requests/:id/process"

\* The step answers a process request of the core admin for an existing
\* request; Before is that request before the step, After after it.
Before == Row(pendingRequests, resp'.id)
After == Row(pendingRequests', resp'.id)

ProcessStep(status) ==
  /\ resp'.op = ProcessOp
  /\ resp'.role = "core"
  /\ resp'.body.action = status
  /\ Exists(pendingRequests, resp'.id)

ContentUnchanged == store' = store /\ profileMain' = profileMain

\* C1: an UPDATE or DELETE that an active sub-admin sends to a content route
\* is never applied to the content store by that request.
C1_NeverAppliedDirectly ==
  [][ (/\ resp'.op \in {"PUT /projects/:id", "DELETE /projects/:id"}
       /\ ByActiveSubAdmin(resp'.token))
      => ContentUnchanged ]_vars

\* Nothing stored changes in the step.
NothingProcessed ==
  /\ resp'.actionResult = "null"
  /\ pendingRequests' = pendingRequests
  /\ ids' = ids
  /\ ContentUnchanged

\* C6: a process call for a request that is approved or rejected already
\* answers 400 'already processed', leaves every field of every request and
\* the content as they are, and executes nothing; for a request removed since,
\* it answers 404 and changes nothing either.
C6_ProcessedOnce ==
  [][ /\ (/\ \E st \in {"approved", "rejected"} : ProcessStep(st)
          /\ Before.status # "pending")
         => (/\ resp'.code = 400
             /\ resp'.error = "This request has already been processed"
             /\ NothingProcessed)
      /\ (/\ resp'.op = ProcessOp /\ resp'.role = "core"
          /\ ~Exists(pendingRequests, resp'.id))
         => (/\ resp'.code = 404
             /\ NothingProcessed) ]_vars

C6_Witness ==
  /\ resp.op = ProcessOp /\ resp.code = 400
  /\ resp.error = "This request has already been processed"
  /\ resp.body.action = "rejected"
  /\ Exists(pendingRequests, resp.id)
  /\ Row(pendingRequests, resp.id).status = "approved"
  /\ Row(pendingRequests, resp.id).processedBy = "uCore"

\* The executions that fail: an unknown resource type, an UPDATE or DELETE
\* without resourceId, an action a special type does not take, and an update
\* the store refuses because the document is not there.
ExecutionFails(r) ==
  IF r.resourceType \in SpecialProfileTypes THEN r.action # "UPDATE"
  ELSE \/ collectionMap(r.resourceType) = UNDEF
       \/ r.action \in {"UPDATE", "DELETE"} /\ r.resourceId = UNDEF
       \/ /\ r.action = "UPDATE"
          /\ ~DocExists(store, collectionMap(r.resourceType), r.resourceId)

\* C7: approving a pending request whose execution fails answers 200 with an
\* actionResult that reports the failure; the request is stored approved with
\* processedAt and processedBy, and the content is as before.
C7_ApprovalStands ==
  [][ (/\ ProcessStep("approved")
       /\ Before.status = "pending"
       /\ ExecutionFails(Before))
      => (/\ resp'.code = 200
          /\ resp'.actionResult \notin {"null", "success"}
          /\ After = [Before EXCEPT !.status = "approved", !.processedAt = now,
                                      !.processedBy = "uCore"]
          /\ ContentUnchanged) ]_vars

C7_Witness ==
  /\ resp.op = ProcessOp /\ resp.code = 200
  /\ resp.actionResult = "Unknown resource type: gallery"
  /\ Row(pendingRequests, resp.id).status = "approved"
  /\ Row(pendingRequests, resp.id).processedBy = "uCore"

\* C8: rejecting a pending request stores status rejected, processedAt and
\* processedBy, stores rejectionReason exactly when a non-empty one was sent,
\* changes nothing else of the requests and nothing of the content.
C8_Reject ==
  [][ (/\ ProcessStep("rejected")
       /\ Before.status = "pending")
      => LET reason == resp'.body.data.rejectionReason IN
         /\ resp'.code = 200
         /\ resp'.actionResult = "null"
         /\ After = [Before EXCEPT
                         !.status = "rejected", !.processedAt = now,
                         !.processedBy = "uCore",
                         !.rejectionReason = IF reason \in {UNDEF, ""} THEN UNDEF ELSE reason]
         /\ \A r \in pendingRequests : r.id # resp'.id => r \in pendingRequests'
         /\ ids' = ids
         /\ ContentUnchanged ]_vars

C8_Witness ==
  /\ resp.op = ProcessOp /\ resp.code = 200 /\ resp.body.action = "rejected"
  /\ resp.body.data.rejectionReason = "no"
  /\ Row(pendingRequests, resp.id).status = "rejected"
  /\ Row(pendingRequests, resp.id).rejectionReason = "no"
  /\ Row(pendingRequests, resp.id).action = "DELETE"
  /\ DocExists(store, "projects", "d1")


\* The step approves a pending UPDATE of a project whose request names the
\* document.
ApprovesProjectUpdate ==
  /\ ProcessStep("approved")
  /\ Before.status = "pending"
  /\ Before.action = "UPDATE" /\ Before.resourceType = "project"
  /\ Before.resourceId # UNDEF

\* The document projects/id holds the fields of data named in fields.
ProjectHolds(st, id, data, fields) ==
  /\ DocExists(st, "projects", id)
  /\ \A f \in fields : f \in DOMAIN st.projects[id] /\ st.projects[id][f] = data[f]

\* C9 as stated: once the core admin approves a sub-admin's UPDATE of project
\* id with data d, projects/id holds every field of d, and the request is
\* approved with processedBy the core admin's uid.
C9_AsStated ==
  [][ ApprovesProjectUpdate
      => (/\ ProjectHolds(store', Before.resourceId, Before.data, DOMAIN Before.data)
          /\ After.status = "approved"
          /\ After.processedBy = "uCore") ]_vars

\* C9: once the core admin approves a sub-admin's UPDATE of project id with
\* data d, the request is approved with processedBy the core admin's uid; if
\* projects/id existed it holds every field of d except updatedAt, which is
\* the time of the approval; if it did not, the content is unchanged and
\* actionResult reports the failure.
C9_ApprovedUpdate ==
  [][ ApprovesProjectUpdate
      => (/\ After.status = "approved"
          /\ After.processedBy = "uCore"
          /\ IF DocExists(store, "projects", Before.resourceId)
               THEN /\ ProjectHolds(store', Before.resourceId, Before.data,
                                    DOMAIN Before.data \ {"updatedAt"})
                    /\ store'.projects[Before.resourceId].updatedAt = DateValue(now)
                    /\ resp'.actionResult = "success"
               ELSE /\ ContentUnchanged
                    /\ resp'.actionResult \notin {"null", "success"}) ]_vars

C9_Witness ==
  /\ resp.op = ProcessOp /\ resp.code = 200 /\ resp.actionResult = "success"
  /\ Exists(pendingRequests, resp.id)
  /\ LET r == Row(pendingRequests, resp.id) IN
     /\ r.status = "approved" /\ r.action = "UPDATE" /\ r.resourceType = "project"
     /\ r.subAdminEmail = "ann@x.io"
     /\ "updatedAt" \in DOMAIN r.data
     /\ ProjectHolds(store, r.resourceId, r.data, {"title"})

\* Two requests with the same key of the duplicate check.
SameKey(r, q) ==
  /\ r.subAdminId = q.subAdminId /\ r.action = q.action
  /\ r.resourceType = q.resourceType /\ r.page = q.page
  /\ r.resourceId = q.resourceId

OnePendingPerKey ==
  \A r, q \in pendingRequests :
    r.status = "pending" /\ q.status = "pending" /\ SameKey(r, q) => r = q

\* The request a sub-admin's submit would store for the body of the response.
Submitted(s) ==
  [subAdminId |-> s.id, action |-> resp'.body.action,
   resourceType |-> resp'.body.resourceType, page |-> resp'.body.page,
   resourceId |-> IF Truthy(resp'.body.resourceId) THEN resp'.body.resourceId ELSE UNDEF]

\* C10: no two pending requests share (subAdminId, action, resourceType, page,
\* resourceId), and a submit by a sub-admin who has a pending request with the
\* same key answers 400 'a similar request is already pending' and stores
\* nothing.
C10_NoDuplicatePending ==
  /\ []OnePendingPerKey
  /\ [][ (/\ resp'.op = "POST /requests"
          /\ resp'.role = "sub"
          /\ \E s \in ActiveSubAdmins(subAdmins, toLowerCase(verifyIdToken(resp'.token).email)) :
               \E r \in pendingRequests : r.status = "pending" /\ SameKey(r, Submitted(s)))
         => (/\ resp'.code = 400
             /\ resp'.error = "A similar request is already pending"
             /\ pendingRequests' = pendingRequests) ]_vars

C10_Witness ==
  /\ resp.op = "POST /requests" /\ resp.code = 400
  /\ resp.error = "A similar request is already pending"
  /\ Cardinality({r \in pendingRequests : r.status = "pending"}) = 2
  /\ \E r \in pendingRequests :
       /\ r.status = "pending" /\ r.action = resp.body.action
       /\ r.resourceType = resp.body.resourceType /\ r.page = resp.body.page
       /\ r.resourceId = resp.body.resourceId

(***************************************************************************)
(* The resolver and the permission middleware over the contents the        *)
(* subAdmins collection can hold (specification SpecResolve).              *)
(***************************************************************************)
\* A row of subAdmins as accept stores it.
ProfileRow(n, uid, email, isActive, pagePermissions) ==
  [id |-> Id("s", n), uid |-> uid, email |-> email, name |-> displayName(uid),
   photoUrl |-> "null", invitedBy |-> "uCore", invitedByEmail |-> CORE_ADMIN_EMAIL,
   isActive |-> isActive, pagePermissions |-> pagePermissions,
   createdAt |-> 0, lastLoginAt |-> 0,
   disabledAt |-> IF isActive THEN NoDate ELSE 0, disabledReason |-> UNDEF]

\* Ann's row with each permission set, active or disabled; or none.
AnnRows ==
  {{}} \cup {{ProfileRow(1, "uAnn", "ann@x.io", a, pp)} :
               a \in BOOLEAN, pp \in PagePermissionInputs \cup {DEFAULT_VIEW_PERMISSIONS}}

\* A row that carries the core admin's email, written to the collection by
\* hand: no route creates it.
CoreEmailRows == {{}, {ProfileRow(2, "uCore", CORE_ADMIN_EMAIL, TRUE, PP_Write)}}

InitResolve ==
  /\ now = 0
  /\ ticks = 0
  /\ subAdmins \in {a \cup c : a \in AnnRows, c \in CoreEmailRows}
  /\ adminInvitations = {}
  /\ pendingRequests = {}
  /\ store = [c \in Collections |-> << >>]
  /\ profileMain = << >>
  /\ ids = [c \in Collections \cup {"adminInvitations", "subAdmins", "pendingRequests"} |->
              IF c = "subAdmins" THEN 2 ELSE 0]
  /\ resp = Response("none", UNDEF, 0, "")
  /\ inflight = {}

NextResolve ==
  \/ Tick
  \/ \E t \in Tokens : MyPermissions(t, TRUE)
  \/ \E t \in Tokens, page \in GuardedPages, permission \in Permissions :
       RequirePermissionRoute(t, TRUE, page, permission)
  \/ \E t \in Tokens, page \in GuardedPages, permission \in Permissions :
       CheckWriteRoute(t, page, permission)
  \/ \E t \in Tokens, b \in FaqBodies : PostFaq(t, b)
  \/ \E t \in Tokens, id \in RowIds("d", MaxDocs), b \in FaqBodies : PutFaq(t, id, b)
  \/ \E t \in Tokens, id \in RowIds("d", MaxDocs) : DeleteFaq(t, id)

SpecResolve == InitResolve /\ [][NextResolve]_vars

\* The bearer of the token of the response, as the step found the collection.
CallerEmail == toLowerCase(verifyIdToken(resp'.token).email)
CallerVerified == verifyIdToken(resp'.token).uid # UNDEF
CallerRows == ActiveSubAdmins(subAdmins, CallerEmail)

\* The page and the permission a guarded step asked for.
FaqPermission ==
  CASE resp'.op = "POST /faqs" -> "CREATE"
    [] resp'.op = "PUT /faqs/:id" -> "UPDATE"
    [] resp'.op = "DELETE /faqs/:id" -> "DELETE"
AskedPage == IF resp'.op = "requirePermission" THEN resp'.page ELSE "faqs"
AskedPermission ==
  IF resp'.op = "requirePermission" THEN resp'.permission ELSE FaqPermission

\* The entry of the page in pagePermissions (the first, when there are
\* several) contains the permission.
EntryGrants(pagePermissions, page, permission) ==
  \E i \in 1..Len(pagePermissions) :
    /\ pagePermissions[i].page = page
    /\ \A j \in 1..(i - 1) : pagePermissions[j].page # page
    /\ permission \in pagePermissions[i].permissions

\* C2: for a sub-admin, requirePermission(page, action) denies with 403 when
\* the page has no entry or the entry lacks the action, lets the handler run
\* when the entry holds the action and the action is VIEW or CREATE, and
\* answers 403 with requiresApproval and hasPermission when the entry holds
\* the action and the action is UPDATE or DELETE; on every 403 the handler
\* does not run.
C2_Decision ==
  [][ (/\ resp'.op \in {"requirePermission", "POST /faqs", "PUT /faqs/:id", "DELETE /faqs/:id"}
       /\ resp'.role = "sub"
       /\ ticks' = ticks)
      => \A s \in CallerRows :
           IF ~EntryGrants(s.pagePermissions, AskedPage, AskedPermission)
             THEN /\ resp'.code = 403 /\ ~resp'.hasPermission
                  /\ store' = store
           ELSE IF AskedPermission \in {"VIEW", "CREATE"}
             THEN /\ resp'.code # 403
                  /\ (resp'.op = "requirePermission" => resp'.code = 0)
                  /\ (resp'.op = "POST /faqs" => resp'.code = 201 /\ store' # store)
           ELSE /\ resp'.code = 403 /\ resp'.hasPermission /\ resp'.requiresApproval
                /\ store' = store ]_vars

C2_Witness ==
  /\ resp.op = "requirePermission" /\ resp.role = "sub" /\ resp.code = 403
  /\ resp.hasPermission /\ resp.requiresApproval
  /\ resp.page = "projects" /\ resp.permission = "UPDATE"
  /\ \E s \in subAdmins : s.email = "ann@x.io" /\ s.isActive /\ s.pagePermissions = PP_Write

\* C3: the core admin passes requirePermission and
\* checkWritePermissionOrCreateRequest for every page and every permission,
\* whatever the collection holds: never a 403, never requiresApproval.
C3_CoreAllowed ==
  [][ (/\ resp'.op \in {"requirePermission", "checkWritePermissionOrCreateRequest"}
       /\ CallerVerified
       /\ CallerEmail = CORE_ADMIN_EMAIL)
      => (/\ resp'.code = 0
          /\ resp'.role = "core"
          /\ ~resp'.requiresApproval) ]_vars

C3_Witness ==
  /\ resp.op = "checkWritePermissionOrCreateRequest" /\ resp.token = "tokCore"
  /\ resp.code = 0 /\ resp.role = "core"
  /\ resp.page = "messages" /\ resp.permission = "DELETE"
  /\ \A s \in subAdmins : FindPage(s.pagePermissions, "messages").page = UNDEF

\* C4: authenticateWithPermissions gives a verified identity exactly one of
\* three roles: core admin when its lowercased email is the core admin's,
\* whatever rows the collection holds, and then no row is written; sub-admin
\* when it is not and an active row has the email; otherwise 403.
C4_Classification ==
  [][ (ticks' = ticks /\ CallerVerified)
      => /\ resp'.role \in {"core", "sub", "none"}
         /\ resp'.role = "core" <=> CallerEmail = CORE_ADMIN_EMAIL
         /\ resp'.role = "sub" <=> (CallerEmail # CORE_ADMIN_EMAIL /\ CallerRows # {})
         /\ resp'.role = "none"
              => /\ resp'.code = 403
                 /\ resp'.error = "Access denied. You are not authorized to access this admin panel."
         /\ resp'.role # "sub" => subAdmins' = subAdmins
         /\ resp'.role = "sub"
              => \E s \in CallerRows :
                   subAdmins' = (subAdmins \ {s}) \cup {[s EXCEPT !.lastLoginAt = now]} ]_vars

C4_Witness ==
  /\ resp.token = "tokCore" /\ resp.role = "core" /\ resp.code = 200
  /\ now > 0
  /\ \E s \in subAdmins :
       s.email = CORE_ADMIN_EMAIL /\ s.isActive /\ s.lastLoginAt = 0

(***************************************************************************)
(* The life of a sub-admin: invitation, acceptance, permissions, disable,  *)
(* enable and delete, and the resolver in between (specification          *)
(* SpecTeam).                                                              *)
(***************************************************************************)
TeamCallers == {"tokCore", "tokAnn"}

\* The emails the core admin invites, and the identities that accept.
TeamEmails == {"Ann@X.io", "MJAbdullah33@Gmail.com"}
AcceptCallers == {"tokAnn", "tokBob", "tokBad"}

NextTeam ==
  \/ Tick
  \/ \E e \in TeamEmails,
        pp \in {[given |-> FALSE, value |-> << >>], [given |-> TRUE, value |-> PP_Write]} :
       Invite("tokCore", e, pp)
  \/ \E it \in InviteTokens : VerifyInvite(it)
  \/ \E t \in AcceptCallers, it \in InviteTokens : AcceptInvite(t, it)
  \/ \E id \in RowIds("i", MaxInvitations) : RevokeInvite("tokCore", id)
  \/ \E t \in TeamCallers, id \in RowIds("s", MaxInvitations) :
       UpdatePermissions(t, id, PP_ViewCreate)
  \/ \E t \in TeamCallers, id \in RowIds("s", MaxInvitations), reason \in DisableReasons :
       DisableSubAdmin(t, id, reason)
  \/ \E t \in TeamCallers, id \in RowIds("s", MaxInvitations) : EnableSubAdmin(t, id)
  \/ \E t \in TeamCallers, id \in RowIds("s", MaxInvitations) : DeleteSubAdmin(t, id)
  \/ \E t \in TeamCallers : MyPermissions(t, TRUE)
  \/ \E permission \in {"VIEW", "UPDATE"} :
       RequirePermissionRoute("tokAnn", TRUE, "faqs", permission)
  \/ \E b \in {r \in RequestBodies : r.resourceType = "aboutProfile" /\ r.action = "UPDATE"} :
       SubmitRequest("tokAnn", b)

SpecTeam == Init /\ [][NextTeam]_vars

\* The routes that do not go through authenticateWithPermissions.
UnresolvedOps == {"none", "GET /team/invite/verify/:token", "POST /team/invite/accept/:token"}

\* The caller has a profile and every profile of the caller is disabled.
CallerDisabled ==
  /\ CallerVerified
  /\ CallerEmail # CORE_ADMIN_EMAIL
  /\ \E s \in subAdmins : s.email = CallerEmail
  /\ \A s \in subAdmins : s.email = CallerEmail => ~s.isActive

\* C5: whatever was invited, accepted, changed, disabled, enabled or deleted
\* before, a request of a verified identity whose profile has isActive=false
\* is answered 403 by authenticateWithPermissions and changes nothing.
C5_DisabledRefused ==
  [][ (/\ ticks' = ticks
       /\ resp'.op \notin UnresolvedOps
       /\ CallerDisabled)
      => (/\ resp'.code = 403
          /\ resp'.role = "none"
          /\ resp'.error = "Access denied. You are not authorized to access this admin panel."
          /\ UNCHANGED <<subAdmins, adminInvitations, pendingRequests, store,
                         profileMain, ids>>) ]_vars

C5_Witness ==
  /\ resp.op = "POST /requests" /\ resp.token = "tokAnn"
  /\ resp.code = 403 /\ resp.role = "none"
  /\ pendingRequests # {}
  /\ \E s \in subAdmins :
       /\ s.email = "ann@x.io" /\ ~s.isActive /\ s.disabledAt = now
       /\ s.pagePermissions = PP_ViewCreate

\* C20: a checkWritePermissionOrCreateRequest step for UPDATE or DELETE whose
\* caller is a sub-admin holding that permission on the page does not let
\* the handler run (the answer is not next()) and creates a PendingRequest.
C20_EnqueuesHolder ==
  [][ (/\ ticks' = ticks
       /\ resp'.op = "checkWritePermissionOrCreateRequest"
       /\ resp'.role = "sub"
       /\ resp'.permission \in {"UPDATE", "DELETE"}
       /\ \E s \in CallerRows : EntryGrants(s.pagePermissions, resp'.page, resp'.permission))
      => (/\ resp'.code # 0
          /\ pendingRequests' # pendingRequests) ]_vars

InviteOp == "POST /team/invite"
VerifyOp == "GET /team/invite/verify/:token"
AcceptOp == "POST /team/invite/accept/:token"

\* The pending invitations that carry the token of the step.
Invited ==
  {i \in adminInvitations : i.token = resp'.inviteToken /\ i.status = "pending"}
InvitedLive == {i \in Invited : ~(now > i.expiresAt)}
InvitedPast == {i \in Invited : now > i.expiresAt}

\* The invitation i after accept, after a failed call that found it expired.
Accepted(i) == [i EXCEPT !.status = "accepted", !.acceptedAt = now]
Lapsed(i) == [i EXCEPT !.status = "expired"]

TeamUnchanged == UNCHANGED <<subAdmins, adminInvitations, pendingRequests, store,
                             profileMain, ids, now>>

\* C13: the invitation round trip.  An invite answered 201 stores one pending
\* invitation for the lowercased email under a fresh token; verify of a
\* pending, unexpired invitation answers 200 with the invitation's email and
\* permission set and changes nothing; accept by a verified identity with
\* that email adds exactly one profile (active, the invitation's
\* permissions) and sets the invitation to accepted with acceptedAt = now;
\* an accepted invitation is never changed again, and verify or accept with a
\* token that no pending invitation carries answers 404 and changes nothing.
C13_RoundTrip ==
  [][ ticks' = ticks
      => (/\ (resp'.op = InviteOp /\ resp'.code = 201)
               => \E i \in adminInvitations' \ adminInvitations :
                    /\ adminInvitations' = adminInvitations \cup {i}
                    /\ i.id = resp'.id /\ i.token = resp'.inviteToken
                    /\ i.status = "pending"
                    /\ i.email = toLowerCase(resp'.data.email)
                    /\ \A j \in adminInvitations : j.token # i.token
          /\ (resp'.op = VerifyOp /\ InvitedLive # {})
               => (/\ resp'.code = 200
                   /\ \E i \in InvitedLive :
                        /\ resp'.data.email = i.email
                        /\ resp'.data.pagePermissions = i.pagePermissions
                   /\ TeamUnchanged)
          /\ (/\ resp'.op = AcceptOp /\ CallerVerified
              /\ \E i \in InvitedLive : i.email = CallerEmail)
               => (/\ resp'.code = 200
                   /\ \E i \in InvitedLive, s \in subAdmins' \ subAdmins :
                        /\ subAdmins' = subAdmins \cup {s}
                        /\ s.id = resp'.id /\ s.email = i.email /\ s.isActive
                        /\ s.pagePermissions = i.pagePermissions
                        /\ adminInvitations' = (adminInvitations \ {i}) \cup {Accepted(i)})
          /\ \A i \in adminInvitations :
               i.status = "accepted" => \A j \in adminInvitations' : j.id = i.id => j = i
          /\ (resp'.op \in {VerifyOp, AcceptOp} /\ Invited = {})
               => (/\ resp'.code = IF resp'.op = AcceptOp /\ ~CallerVerified
                                     THEN 401 ELSE 404
                   /\ TeamUnchanged)) ]_vars

\* Ann accepted the invitation, and her second accept with the same token
\* was answered 404; there is one profile with her email.
C13_Witness ==
  /\ resp.op = AcceptOp /\ resp.token = "tokAnn" /\ resp.code = 404
  /\ \E i \in adminInvitations :
       /\ i.token = resp.inviteToken /\ i.status = "accepted" /\ i.acceptedAt # NoDate
       /\ Cardinality({s \in subAdmins : s.email = i.email}) = 1
       /\ \A s \in subAdmins : s.isActive /\ s.pagePermissions = i.pagePermissions

\* C14: verify, or accept by a verified identity, with the token of a pending
\* invitation whose expiresAt is past answers 400 'This invitation has
\* expired'; the step sets the invitation's status to expired and changes
\* nothing else: no profile is created.
C14_Expiry ==
  [][ (/\ ticks' = ticks
       /\ resp'.op \in {VerifyOp, AcceptOp}
       /\ resp'.op = AcceptOp => CallerVerified
       /\ InvitedPast # {})
      => (/\ resp'.code = 400
          /\ resp'.error = "This invitation has expired"
          /\ \E i \in InvitedPast :
               adminInvitations' = (adminInvitations \ {i}) \cup {Lapsed(i)}
          /\ UNCHANGED <<subAdmins, pendingRequests, store, profileMain, ids>>) ]_vars

\* Ann's accept came after the invitation's expiresAt: 400, the invitation
\* is expired and there is no profile.
C14_Witness ==
  /\ resp.op = AcceptOp /\ resp.token = "tokAnn" /\ resp.code = 400
  /\ \E i \in adminInvitations :
       /\ i.token = resp.inviteToken /\ i.status = "expired"
       /\ now > i.expiresAt /\ i.email = "ann@x.io"
  /\ subAdmins = {}

\* C15: accept by a verified identity whose lowercased email differs from the
\* email of the pending, unexpired invitation of the token answers 403 'This
\* invitation was sent to a different email address'; no profile is created
\* and the invitation is unchanged (still pending).
C15_EmailMismatch ==
  [][ (/\ ticks' = ticks
       /\ resp'.op = AcceptOp /\ CallerVerified
       /\ \E i \in InvitedLive : toLowerCase(i.email) # CallerEmail)
      => (/\ resp'.code = 403
          /\ resp'.error = "This invitation was sent to a different email address"
          /\ TeamUnchanged
          /\ Invited # {}) ]_vars

\* Bob used the token of Ann's invitation.
C15_Witness ==
  /\ resp.op = AcceptOp /\ resp.token = "tokBob" /\ resp.code = 403
  /\ \E i \in adminInvitations :
       /\ i.token = resp.inviteToken /\ i.status = "pending"
       /\ i.email = "ann@x.io" /\ ~(now > i.expiresAt)
  /\ subAdmins = {}

\* No invitation and no profile carries the core admin's email.
NoCoreAdminEmail ==
  /\ \A i \in adminInvitations : toLowerCase(i.email) # toLowerCase(CORE_ADMIN_EMAIL)
  /\ \A s \in subAdmins : toLowerCase(s.email) # toLowerCase(CORE_ADMIN_EMAIL)

\* C17: no invitation and no profile ever has the core admin's email, in any
\* spelling: the core admin's invite for that email is answered 400 'Cannot
\* invite the core admin email' and changes nothing, and every profile a step
\* adds has the email of a pending invitation.
C17_CoreEmailNeverInvited ==
  /\ []NoCoreAdminEmail
  /\ [][ ticks' = ticks
         => (/\ (/\ resp'.op = InviteOp /\ resp'.role = "core"
                 /\ toLowerCase(resp'.data.email) = toLowerCase(CORE_ADMIN_EMAIL))
                  => (/\ resp'.code = 400
                      /\ resp'.error = "Cannot invite the core admin email"
                      /\ TeamUnchanged)
             /\ \A s \in subAdmins' \ {r \in subAdmins' : \E q \in subAdmins : q.id = r.id} :
                  /\ resp'.op = AcceptOp
                  /\ \E i \in Invited : i.email = s.email) ]_vars

\* The core admin invited "MJAbdullah33@Gmail.com" and was refused, while Ann
\* is on the team.
C17_Witness ==
  /\ resp.op = InviteOp /\ resp.role = "core" /\ resp.code = 400
  /\ resp.data.email = "MJAbdullah33@Gmail.com"
  /\ resp.error = "Cannot invite the core admin email"
  /\ subAdmins # {}

\* C19: an invite of the core admin for an email whose every profile is
\* disabled is not refused as 'already a sub-admin'.
C19_DisabledDoesNotBlock ==
  [][ (/\ ticks' = ticks
       /\ resp'.op = InviteOp /\ resp'.role = "core"
       /\ \E s \in subAdmins : s.email = toLowerCase(resp'.data.email)
       /\ \A s \in subAdmins : s.email = toLowerCase(resp'.data.email) => ~s.isActive)
      => resp'.error # "This email is already a sub-admin" ]_vars

(***************************************************************************)
(* The requests of two sub-admins: Ann and Bob have profiles, Bob's active  *)
(* or disabled; they submit, the core admin decides, all of them delete.    *)
(***************************************************************************)
\* The bodies submitted here; the second names another sub-admin as its
\* submitter.
OwnedRequestBodies ==
  { [action |-> "UPDATE", resourceType |-> "project", resourceId |-> "d1",
     page |-> "projects", data |-> [title |-> "C"]],
    [action |-> "UPDATE", resourceType |-> "aboutProfile", resourceId |-> UNDEF,
     page |-> "about", data |-> [bio |-> "hello"],
     subAdminId |-> "s2", subAdminEmail |-> "bob@x.io", subAdminName |-> "Bob"] }

InitRequests ==
  /\ now = 0
  /\ ticks = 0
  /\ \E bobActive \in BOOLEAN :
       subAdmins = {ProfileRow(1, "uAnn", "ann@x.io", TRUE, PP_Write),
                    ProfileRow(2, "uBob", "bob@x.io", bobActive, PP_ViewCreate)}
  /\ adminInvitations = {}
  /\ pendingRequests = {}
  /\ store = [c \in Collections |-> << >>]
  /\ profileMain = << >>
  /\ ids = [c \in Collections \cup {"adminInvitations", "subAdmins", "pendingRequests"} |->
              IF c = "subAdmins" THEN 2 ELSE 0]
  /\ resp = Response("none", UNDEF, 0, "")
  /\ inflight = {}

NextRequests ==
  \/ \E t \in Tokens, b \in OwnedRequestBodies : SubmitRequest(t, b)
  \/ \E t \in Tokens, id \in RowIds("r", MaxRequests), st \in {"approved", "rejected"} :
       ProcessRequest(t, id, st, "no")
  \/ \E t \in Tokens, id \in RowIds("r", MaxRequests) : DeleteRequest(t, id)

SpecRequests == InitRequests /\ [][NextRequests]_vars

CallerIsCore == CallerVerified /\ CallerEmail = CORE_ADMIN_EMAIL
CallerIsSubAdmin == CallerVerified /\ CallerEmail # CORE_ADMIN_EMAIL /\ CallerRows # {}

\* C11: a submit of the core admin is answered 400 and creates no request; a
\* request is created only by a submit answered 201 whose caller resolves to
\* an active sub-admin, and the one request created carries that profile's
\* id, email and name, whatever the body says.
C11_SubmitterIsCaller ==
  [][ resp'.op = "POST /requests"
      => (/\ CallerIsCore
              => (/\ resp'.code = 400
                  /\ resp'.error = "Core admin does not need to create requests"
                  /\ pendingRequests' = pendingRequests)
          /\ (resp'.code = 201) = (pendingRequests' # pendingRequests)
          /\ pendingRequests' # pendingRequests
              => (/\ CallerIsSubAdmin
                  /\ pendingRequests \subseteq pendingRequests'
                  /\ \E s \in CallerRows :
                       \A r \in pendingRequests' \ pendingRequests :
                         /\ r.id = resp'.id
                         /\ r.status = "pending"
                         /\ r.subAdminId = s.id
                         /\ r.subAdminEmail = s.email
                         /\ r.subAdminName = s.name)) ]_vars

\* Ann's submit named Bob in its body; the request stored is Ann's.
C11_Witness ==
  /\ resp.op = "POST /requests" /\ resp.token = "tokAnn" /\ resp.code = 201
  /\ "subAdminId" \in DOMAIN resp.body /\ resp.body.subAdminId = "s2"
  /\ Row(pendingRequests, resp.id).subAdminId = "s1"
  /\ Row(pendingRequests, resp.id).subAdminEmail = "ann@x.io"
  /\ \E r \in pendingRequests : r.subAdminId = "s2"

\* The sub-admin who calls owns the request and the request is pending.
OwnPending(r) ==
  /\ r.status = "pending"
  /\ \E s \in CallerRows : r.subAdminId = s.id

\* C12: the core admin's delete of a stored request removes it in any status;
\* a sub-admin's delete removes it exactly when the request is the caller's
\* own and pending; every other delete is refused (403 for a request of
\* someone else, 400 for an own processed one) and leaves the requests as
\* they were.
C12_DeleteRules ==
  [][ (resp'.op = "DELETE /requests/:id" /\ Exists(pendingRequests, resp'.id))
      => (IF CallerIsCore \/ (CallerIsSubAdmin /\ OwnPending(Before))
            THEN /\ resp'.code = 200
                 /\ pendingRequests' = pendingRequests \ {Before}
            ELSE /\ resp'.code \in {400, 401, 403}
                 /\ CallerIsSubAdmin
                      => resp'.code = IF \E s \in CallerRows : Before.subAdminId = s.id
                                        THEN 400 ELSE 403
                 /\ pendingRequests' = pendingRequests) ]_vars

\* Bob asked to delete Ann's pending request and was refused; Ann's own
\* processed request is still there as well.
C12_Witness ==
  /\ resp.op = "DELETE /requests/:id" /\ resp.token = "tokBob" /\ resp.code = 403
  /\ resp.error = "You can only delete your own requests"
  /\ Exists(pendingRequests, resp.id)
  /\ Row(pendingRequests, resp.id).subAdminId = "s1"
  /\ Row(pendingRequests, resp.id).status = "pending"
  /\ \E r \in pendingRequests : r.status # "pending"

(***************************************************************************)
(* The team routes with their handlers overlapping: invite and accept run   *)
(* in two steps, the other routes between them.                             *)
(***************************************************************************)
RaceEmails == {"Ann@X.io", "bob@x.io"}
RaceTokens == {generateInviteToken(n) : n \in 1..MaxOverlap}
RaceSubAdmins == RowIds("s", MaxOverlap)

NextRace ==
  \/ \E e \in RaceEmails : InviteChecked("tokCore", e, [given |-> TRUE, value |-> PP_Write])
  \/ \E h \in inflight : InviteAdded(h)
  \/ \E t \in {"tokAnn", "tokBob"}, it \in RaceTokens : AcceptChecked(t, it)
  \/ \E h \in inflight : AcceptAdded(h)
  \/ \E it \in RaceTokens : VerifyInvite(it)
  \/ \E id \in RowIds("i", MaxOverlap) : RevokeInvite("tokCore", id)
  \/ \E id \in RaceSubAdmins : DisableSubAdmin("tokCore", id, UNDEF)
  \/ \E id \in RaceSubAdmins : EnableSubAdmin("tokCore", id)
  \/ \E id \in RaceSubAdmins : DeleteSubAdmin("tokCore", id)

SpecRace == Init /\ [][NextRace]_vars

\* C16: no two rows of subAdmins have the same email.
C16_UniqueProfileEmail ==
  \A s, t \in subAdmins : s.email = t.email => s = t

\* C18: no two pending invitations have the same email.
C18_OnePendingPerEmail ==
  \A i, j \in adminInvitations :
    (i.status = "pending" /\ j.status = "pending" /\ i.email = j.email) => i = j

(***************************************************************************)
(* Reorder requests: two projects exist, Ann submits reorder requests, the  *)
(* core admin decides them and deletes a project.                           *)
(***************************************************************************)
ReorderBody(page, items) ==
  [action |-> "UPDATE", resourceType |-> "reorder", resourceId |-> UNDEF,
   page |-> page, data |-> [collection |-> "projects", items |-> items]]

\* The first names the two projects; the second names d2 and a document
\* that was never created.
ReorderBodies ==
  { ReorderBody("projects", << [id |-> "d1", order |-> 1], [id |-> "d2", order |-> 0] >>),
    ReorderBody("dashboard", << [id |-> "d2", order |-> 5, featured |-> TRUE],
                                [id |-> "d3", order |-> 6] >>) }

ProjectDoc(order) ==
  [title |-> "A", description |-> "a", technologies |-> <<"ts">>,
   featured |-> FALSE, order |-> order, createdAt |-> DateValue(0)]

InitReorder ==
  /\ now = 0
  /\ ticks = 0
  /\ subAdmins = {ProfileRow(1, "uAnn", "ann@x.io", TRUE, PP_Write)}
  /\ adminInvitations = {}
  /\ pendingRequests = {}
  /\ store = [c \in Collections |->
                IF c = "projects" THEN ("d1" :> ProjectDoc(0)) @@ ("d2" :> ProjectDoc(1))
                ELSE << >>]
  /\ profileMain = << >>
  /\ ids = [c \in Collections \cup {"adminInvitations", "subAdmins", "pendingRequests"} |->
              CASE c = "subAdmins" -> 1 [] c = "projects" -> 2 [] OTHER -> 0]
  /\ resp = Response("none", UNDEF, 0, "")
  /\ inflight = {}

NextReorder ==
  \/ Tick
  \/ \E b \in ReorderBodies : SubmitRequest("tokAnn", b)
  \/ \E id \in RowIds("r", MaxRequests), st \in {"approved", "rejected"} :
       ProcessRequest("tokCore", id, st, UNDEF)
  \/ \E id \in RowIds("r", MaxRequests) : DeleteRequest("tokCore", id)
  \/ \E id \in {"d1", "d2"} : DeleteProject("tokCore", id)

SpecReorder == InitReorder /\ [][NextReorder]_vars

\* The documents a reorder request names, and the item of each.
ReorderTouched(r) == {r.data.items[i].id : i \in 1..Len(r.data.items)}
ReorderItem(r, d) ==
  r.data.items[CHOOSE i \in 1..Len(r.data.items) :
                 /\ r.data.items[i].id = d
                 /\ \A j \in 1..Len(r.data.items) : r.data.items[j].id = d => j <= i]

\* C21: the approval of a reorder request is one step of the store.  When
\* every document it names exists, the step writes the order (and featured)
\* of every item, with updatedAt, and the result is success; when one is
\* missing the result is a failure and the store is exactly as before: no
\* state has some of the items written and others not.
C21_ReorderAtomic ==
  [][ (/\ ticks' = ticks
       /\ ProcessStep("approved")
       /\ Before.status = "pending"
       /\ Before.resourceType = "reorder")
      => LET coll == Before.data.collection
             touched == ReorderTouched(Before)
         IN IF \A d \in touched : DocExists(store, coll, d)
              THEN /\ resp'.actionResult = "success"
                   /\ DOMAIN store'[coll] = DOMAIN store[coll]
                   /\ \A d \in DOMAIN store[coll] :
                        IF d \in touched
                          THEN /\ store'[coll][d].order = ReorderItem(Before, d).order
                               /\ store'[coll][d].updatedAt = DateValue(now)
                               /\ "featured" \in DOMAIN ReorderItem(Before, d)
                                    => store'[coll][d].featured = ReorderItem(Before, d).featured
                               /\ store'[coll][d].title = store[coll][d].title
                          ELSE store'[coll][d] = store[coll][d]
              ELSE /\ resp'.actionResult = "Failed to execute request"
                   /\ store' = store ]_vars

\* A reorder naming d2 and the missing d3 was approved: the execution failed
\* and d2 has the order it had.
C21_Witness ==
  /\ resp.op = ProcessOp /\ resp.code = 200
  /\ resp.actionResult = "Failed to execute request"
  /\ Exists(pendingRequests, resp.id)
  /\ Row(pendingRequests, resp.id).resourceType = "reorder"
  /\ Row(pendingRequests, resp.id).status = "approved"
  /\ "d3" \in ReorderTouched(Row(pendingRequests, resp.id))
  /\ DocExists(store, "projects", "d2")
  /\ store.projects["d2"].order \in {0, 1}
  /\ store.projects["d2"].featured = FALSE

(***************************************************************************)
(* The resolver when the write of lastLoginAt may fail.                     *)
(***************************************************************************)
NextTouch ==
  \/ Tick
  \/ \E t \in Tokens, touchOk \in BOOLEAN : MyPermissions(t, touchOk)
  \/ \E t \in Tokens, touchOk \in BOOLEAN, page \in GuardedPages, permission \in Permissions :
       RequirePermissionRoute(t, touchOk, page, permission)

SpecTouch == InitResolve /\ [][NextTouch]_vars

\* C22: a request of a verified identity that has an active profile is not
\* answered 401, whether or not lastLoginAt could be written: the caller is
\* resolved as a sub-admin.
C22_TouchFailureTolerated ==
  [][ (/\ ticks' = ticks
       /\ resp'.op \in {"GET /team/my-permissions", "requirePermission"}
       /\ CallerIsSubAdmin)
      => (resp'.code # 401 /\ resp'.role = "sub") ]_vars

(***************************************************************************)
(* The requests routes with their handlers overlapping: submit and process  *)
(* run in two steps.                                                        *)
(***************************************************************************)
NextRequestRace ==
  \/ \E b \in OwnedRequestBodies : SubmitChecked("tokAnn", b)
  \/ \E h \in inflight : SubmitAdded(h)
  \/ \E id \in RowIds("r", MaxRequests), st \in {"approved", "rejected"} :
       ProcessChecked("tokCore", id, st, "no")
  \/ \E h \in inflight : ProcessWritten(h)
  \/ \E id \in RowIds("r", MaxRequests) : DeleteRequest("tokCore", id)

SpecRequestRace == InitRequests /\ [][NextRequestRace]_vars

\* C23: the status of a request is written once: a request that is approved
\* or rejected keeps its status, processedAt and processedBy for as long as
\* it is stored, and no step executes a request that is not pending.
C23_DecidedOnce ==
  [][ \A r \in pendingRequests :
        r.status # "pending"
          => (/\ \A q \in pendingRequests' :
                   q.id = r.id => (/\ q.status = r.status
                                   /\ q.processedAt = r.processedAt
                                   /\ q.processedBy = r.processedBy)
              /\ (resp'.op = ProcessOp /\ resp'.id = r.id /\ resp' # resp)
                   => (store' = store /\ profileMain' = profileMain)) ]_vars

\* The write of a submit handler whose duplicate check passed.
SubmitWrite ==
  /\ resp'.op = "POST /requests" /\ resp'.code = 201
  /\ inflight' # inflight

\* C24: the insert of a submit handler is unconditional.  Once the duplicate
\* check has passed, the handler stores its request as pending whatever has
\* been stored since, also when a pending request of the same sub-admin with
\* the same (action, resourceType, page, resourceId) is there by then.
C24_SubmitRace ==
  [][ \A h \in inflight :
        (h.op = "submit" /\ inflight' = inflight \ {h} /\ SubmitWrite)
          => \E r \in pendingRequests' \ pendingRequests :
               /\ pendingRequests' = pendingRequests \cup {r}
               /\ r.id = resp'.id /\ r.status = "pending"
               /\ r.subAdminId = h.req.subAdmin.id
               /\ r.action = h.arg.body.action /\ r.page = h.arg.body.page
               /\ r.resourceType = h.arg.body.resourceType ]_vars

\* Two pending requests of Ann with the same key.
C24_Witness ==
  \E r, q \in pendingRequests :
    /\ r # q /\ SameKey(r, q)
    /\ r.status = "pending" /\ q.status = "pending"
    /\ r.subAdminId = "s1"

(***************************************************************************)
(* One invitation, the clock, and accept handlers that overlap with verify  *)
(* and revoke.                                                              *)
(***************************************************************************)
NextExpiryRace ==
  \/ Tick
  \/ Invite("tokCore", "Ann@X.io", [given |-> FALSE, value |-> << >>])
  \/ \E it \in InviteTokens : VerifyInvite(it)
  \/ \E t \in {"tokAnn", "tokBob"}, it \in InviteTokens : AcceptInvite(t, it)
  \/ \E it \in InviteTokens : AcceptChecked("tokAnn", it)
  \/ \E h \in inflight : AcceptAdded(h)
  \/ \E id \in RowIds("i", MaxInvitations) : RevokeInvite("tokCore", id)

SpecExpiryRace == Init /\ [][NextExpiryRace]_vars

\* C25: the status of a stored invitation changes only from pending, to
\* expired or to accepted; an accepted or expired invitation keeps its
\* status for as long as it is stored.
C25_StatusOnlyLeavesPending ==
  [][ \A i \in adminInvitations, j \in adminInvitations' :
        (j.id = i.id /\ j.status # i.status)
          => (i.status = "pending" /\ j.status \in {"expired", "accepted"}) ]_vars

(***************************************************************************)
(* Inviting the same email again: the first invitation lapses, is verified, *)
(* accepted or revoked, and the core admin invites Ann once more.           *)
(***************************************************************************)
NextReinvite ==
  \/ Tick
  \/ Invite("tokCore", "Ann@X.io", [given |-> FALSE, value |-> << >>])
  \/ InviteChecked("tokCore", "Ann@X.io", [given |-> FALSE, value |-> << >>])
  \/ \E h \in inflight : InviteAdded(h)
  \/ \E it \in RaceTokens : VerifyInvite(it)
  \/ \E it \in RaceTokens : AcceptInvite("tokAnn", it)
  \/ \E id \in RowIds("i", MaxOverlap) : RevokeInvite("tokCore", id)

SpecReinvite == Init /\ [][NextReinvite]_vars

\* The invitations stored as pending for the email, whatever their expiresAt.
StoredPending(email) ==
  {i \in adminInvitations : i.email = toLowerCase(email) /\ i.status = "pending"}

\* C26: while an invitation for the email is stored with status pending, also
\* one whose expiresAt has passed, the core admin's invite for that email
\* (no profile has it) is answered 400 'An invitation is already pending for
\* this email' and changes nothing; an invite handler gets past its checks
\* only in a state where no invitation for the email is stored as pending.
C26_LazyExpiryBlocksInvite ==
  [][ ticks' = ticks
      => (/\ (/\ resp'.op = InviteOp /\ resp'.role = "core" /\ resp' # resp
              /\ inflight' = inflight
              /\ StoredPending(resp'.data.email) # {}
              /\ ~\E s \in subAdmins : s.email = toLowerCase(resp'.data.email))
               => (/\ resp'.code = 400
                   /\ resp'.error = "An invitation is already pending for this email"
                   /\ TeamUnchanged)
          /\ \A h \in inflight' \ inflight :
               h.op = "invite" => StoredPending(h.arg.email) = {}) ]_vars

\* The invite was refused although the pending invitation's expiresAt has
\* passed.
C26_Witness ==
  /\ resp.op = InviteOp /\ resp.code = 400
  /\ resp.error = "An invitation is already pending for this email"
  /\ \E i \in adminInvitations :
       i.email = "ann@x.io" /\ i.status = "pending" /\ now > i.expiresAt

(***************************************************************************)
(* Requests and the standing of their submitter: Ann submits for pages she  *)
(* holds permissions for and for pages she holds none for, the core admin   *)
(* changes her permissions, disables, enables and deletes her profile, and  *)
(* decides her requests.                                                    *)
(***************************************************************************)
\* The bodies submitted here: Ann's first permissions hold UPDATE on projects,
\* not DELETE on projects, nothing on about and CREATE on faqs; the last body
\* fails the schema.
StandingBodies ==
  { [action |-> "UPDATE", resourceType |-> "project", resourceId |-> "d1",
     page |-> "projects", data |-> [title |-> "C"]],
    [action |-> "DELETE", resourceType |-> "project", resourceId |-> "d1",
     page |-> "projects", data |-> << >>],
    [action |-> "UPDATE", resourceType |-> "aboutProfile", resourceId |-> UNDEF,
     page |-> "about", data |-> [bio |-> "hello"]],
    [action |-> "CREATE", resourceType |-> "faq", resourceId |-> UNDEF,
     page |-> "faqs", data |-> [question |-> "Q", answer |-> "A", order |-> 0]],
    [action |-> "PATCH", resourceType |-> "project", resourceId |-> "d1",
     page |-> "projects", data |-> [title |-> "C"]] }

\* The permissions the core admin gives Ann here.
StandingPermissions == {<< >>, PP_ViewCreate}

InitStanding ==
  /\ now = 0
  /\ ticks = 0
  /\ subAdmins = {ProfileRow(1, "uAnn", "ann@x.io", TRUE, PP_Write)}
  /\ adminInvitations = {}
  /\ pendingRequests = {}
  /\ store = [c \in Collections |->
                IF c = "projects" THEN "d1" :> ProjectDoc(0) ELSE << >>]
  /\ profileMain = << >>
  /\ ids = [c \in Collections \cup {"adminInvitations", "subAdmins", "pendingRequests"} |->
              IF c \in {"subAdmins", "projects"} THEN 1 ELSE 0]
  /\ resp = Response("none", UNDEF, 0, "")
  /\ inflight = {}

NextStanding ==
  \/ \E b \in StandingBodies : SubmitRequest("tokAnn", b)
  \/ \E id \in RowIds("r", MaxRequests), st \in {"approved", "rejected"} :
       ProcessRequest("tokCore", id, st, UNDEF)
  \/ \E pp \in StandingPermissions : UpdatePermissions("tokCore", "s1", pp)
  \/ \E reason \in DisableReasons : DisableSubAdmin("tokCore", "s1", reason)
  \/ EnableSubAdmin("tokCore", "s1")
  \/ DeleteSubAdmin("tokCore", "s1")

SpecStanding == InitStanding /\ [][NextStanding]_vars

\* The caller has no pending request that the duplicate check matches.
NoDuplicateOfCaller ==
  \A s \in CallerRows :
    DuplicateRequests(pendingRequests, s.id, resp'.body.action, resp'.body.resourceType,
                      resp'.body.page, resp'.body.resourceId) = {}

\* C27: a submit of an active sub-admin whose body passes the schema and
\* matches no pending request of theirs is answered 201 and stores a pending
\* request for the page and the action of the body, whatever pagePermissions
\* the sub-admin holds; and the approval of a pending request applies what
\* executeApprovedRequest makes of the stored request, whoever submitted it.
C27_SubmitIgnoresPermissions ==
  [][ /\ (/\ resp'.op = "POST /requests"
          /\ CallerIsSubAdmin
          /\ createRequestSchema(resp'.body).success
          /\ NoDuplicateOfCaller)
        => (/\ resp'.code = 201
            /\ \E r \in pendingRequests' \ pendingRequests :
                 /\ r.id = resp'.id /\ r.status = "pending"
                 /\ r.page = resp'.body.page /\ r.action = resp'.body.action
                 /\ \E s \in CallerRows : r.subAdminId = s.id)
      /\ (ProcessStep("approved") /\ Before.status = "pending")
        => LET result == executeApprovedRequest(Before, store, profileMain, ids) IN
           /\ After.status = "approved"
           /\ store' = result.store
           /\ profileMain' = result.profileMain
           /\ resp'.actionResult = ActionResult(result) ]_vars

\* A request for the page about, for which no permissions of the model have
\* an entry, has been approved and applied to the profile, and another for
\* the deletion of a project, a permission Ann never held on projects, is
\* stored as pending.
C27_Witness ==
  /\ resp.op = ProcessOp /\ resp.code = 200 /\ resp.actionResult = "success"
  /\ Row(pendingRequests, resp.id).page = "about"
  /\ Row(pendingRequests, resp.id).status = "approved"
  /\ "bio" \in DOMAIN profileMain
  /\ \E r \in pendingRequests :
       r.page = "projects" /\ r.action = "DELETE" /\ r.status = "pending"
  /\ \A s \in subAdmins : FindPage(s.pagePermissions, "about").page = UNDEF

\* The sub-admin who submitted the request has no profile, or a disabled
\* one, or one without the permission on the page for the action.
SubmitterGone(r) ==
  ~\E s \in subAdmins :
     /\ s.id = r.subAdminId /\ s.isActive
     /\ \E i \in 1..Len(s.pagePermissions) :
          s.pagePermissions[i].page = r.page /\ r.action \in s.pagePermissions[i].permissions

StandingOps == {"PUT /team/:id/permissions", "PUT /team/:id/disable", "DELETE /team/:id"}

\* C28: a change of permissions, a disable and a delete of a sub-admin leave
\* the pending requests as they were; and the approval of a pending request
\* whose submitter has no profile, no active profile or no permission for it
\* any more marks it approved and applies what executeApprovedRequest makes
\* of the stored request.
C28_RequestsOutliveStanding ==
  [][ /\ resp'.op \in StandingOps => pendingRequests' = pendingRequests
      /\ (ProcessStep("approved") /\ Before.status = "pending" /\ SubmitterGone(Before))
        => LET result == executeApprovedRequest(Before, store, profileMain, ids) IN
           /\ resp'.code = 200
           /\ After = [Before EXCEPT !.status = "approved", !.processedAt = now,
                                     !.processedBy = "uCore"]
           /\ store' = result.store
           /\ profileMain' = result.profileMain
           /\ ids' = result.ids ]_vars

\* Ann's profile was deleted while her request to update project d1 was
\* pending; the approval that followed wrote the new title.
C28_Witness ==
  /\ subAdmins = {}
  /\ resp.op = ProcessOp /\ resp.code = 200 /\ resp.body.action = "approved"
  /\ resp.actionResult = "success"
  /\ Row(pendingRequests, resp.id).subAdminId = "s1"
  /\ Row(pendingRequests, resp.id).action = "UPDATE"
  /\ Row(pendingRequests, resp.id).page = "projects"
  /\ store.projects["d1"].title = "C"

(***************************************************************************)
(* Disable and enable (specification SpecTeam).                            *)
(***************************************************************************)
\* The step answers 200 to the core admin's call of the route for a stored
\* profile; Profile is that profile before the step, ProfileAfter after it.
ToggleStep(op) ==
  /\ ticks' = ticks
  /\ resp'.op = op /\ resp'.code = 200
  /\ Exists(subAdmins, resp'.id)

Profile == Row(subAdmins, resp'.id)
ProfileAfter == Row(subAdmins', resp'.id)

\* The step leaves every other profile, the invitations, the requests and
\* the content as they were.
OnlyProfileWritten ==
  /\ {r \in subAdmins' : r.id # resp'.id} = {r \in subAdmins : r.id # resp'.id}
  /\ Exists(subAdmins', resp'.id)
  /\ adminInvitations' = adminInvitations
  /\ pendingRequests' = pendingRequests
  /\ store' = store /\ profileMain' = profileMain

\* The bearer tokens whose email is the given one.
TokensOf(email) ==
  {t \in Tokens : verifyIdToken(t).uid # UNDEF /\ toLowerCase(verifyIdToken(t).email) = email}

\* C30: a disable writes isActive, disabledAt and disabledReason of the
\* profile and nothing else; an enable, of a disabled profile as of any,
\* writes isActive = true and clears disabledAt and disabledReason and
\* nothing else, so that the profile after a disable and an enable has the
\* id, email and pagePermissions it had before them; and after the enable the
\* identity of the profile's email resolves to that sub-admin with those
\* pagePermissions.
C30_DisableEnableRestores ==
  [][ /\ ToggleStep("PUT /team/:id/disable")
        => (/\ OnlyProfileWritten
            /\ ProfileAfter.isActive = FALSE
            /\ ProfileAfter.disabledAt = now
            /\ ProfileAfter = [Profile EXCEPT !.isActive = FALSE, !.disabledAt = now,
                                 !.disabledReason = ProfileAfter.disabledReason])
      /\ ToggleStep("PUT /team/:id/enable")
        => (/\ OnlyProfileWritten
            /\ ProfileAfter = [Profile EXCEPT !.isActive = TRUE, !.disabledAt = NoDate,
                                              !.disabledReason = "null"]
            /\ \A t \in TokensOf(Profile.email) :
                 \A req \in authenticateWithPermissions(subAdmins', t, TRUE) :
                   /\ req.code = 0 /\ req.isSubAdmin /\ ~req.isCoreAdmin
                   /\ req.subAdmin.id = Profile.id
                   /\ req.email = Profile.email
                   /\ req.permissions = Profile.pagePermissions) ]_vars

\* Ann's profile as an enable has left it, some time after her last request:
\* active, disabledAt and disabledReason null, and her identity resolves to
\* it.
C30_Witness ==
  /\ resp.op = "PUT /team/:id/enable" /\ resp.code = 200
  /\ Exists(subAdmins, resp.id)
  /\ Row(subAdmins, resp.id).isActive
  /\ Row(subAdmins, resp.id).disabledAt = NoDate
  /\ Row(subAdmins, resp.id).disabledReason = "null"
  /\ Row(subAdmins, resp.id).lastLoginAt < now
  /\ \E req \in authenticateWithPermissions(subAdmins, "tokAnn", TRUE) :
       req.isSubAdmin /\ req.subAdmin.id = resp.id

(***************************************************************************)
(* The CV upload and the routes behind requirePermission(page, UPDATE) and  *)
(* requirePermission(page, DELETE): Ann has no profile, or one, active or   *)
(* disabled, that holds UPDATE and DELETE on the page profile, or on faqs,  *)
(* or VIEW alone.                                                           *)
(***************************************************************************)
PP_Profile ==
  << [page |-> "profile", permissions |-> {"VIEW", "UPDATE", "DELETE"}] >>

UploadRows ==
  {{}} \cup {{ProfileRow(1, "uAnn", "ann@x.io", a, pp)} :
               a \in BOOLEAN, pp \in {PP_Profile, PP_Write, DEFAULT_VIEW_PERMISSIONS}}

InitUpload ==
  /\ now = 0
  /\ ticks = 0
  /\ subAdmins \in UploadRows
  /\ adminInvitations = {}
  /\ pendingRequests = {}
  /\ store = [c \in Collections |-> << >>]
  /\ profileMain = << >>
  /\ ids = [c \in Collections \cup {"adminInvitations", "subAdmins", "pendingRequests"} |->
              IF c = "subAdmins" THEN 1 ELSE 0]
  /\ resp = Response("none", UNDEF, 0, "")
  /\ inflight = {}

NextUpload ==
  \/ Tick
  \/ \E t \in Tokens, touchOk \in BOOLEAN, file \in CvFiles : UploadCv(t, touchOk, file)
  \/ \E t \in Tokens, touchOk \in BOOLEAN, page \in {"profile", "faqs"},
        permission \in {"UPDATE", "DELETE"} :
       RequirePermissionRoute(t, touchOk, page, permission)

SpecUpload == InitUpload /\ [][NextUpload]_vars

\* C29: a request of an active sub-admin to a route behind
\* requirePermission(page, UPDATE) or requirePermission(page, DELETE) is
\* answered 401 or 403 before the handler, whatever the sub-admin's
\* pagePermissions; the CV upload of a sub-admin therefore stores no request,
\* writes nothing to profile/main and returns no cvUrl of an uploaded asset,
\* and no request of the kind that branch would add is ever stored.
C29_SubAdminNeverReaches ==
  /\ [](\A r \in pendingRequests : "requestedBy" \notin DOMAIN r)
  /\ [][ (/\ ticks' = ticks
          /\ CallerIsSubAdmin
          /\ \/ resp'.op = "POST /files/cv"
             \/ resp'.op = "requirePermission" /\ resp'.permission \in {"UPDATE", "DELETE"})
         => (/\ resp'.code \in {401, 403}
             /\ resp'.role \in {"sub", "invalid"}
             /\ "cvUrl" \notin DOMAIN resp'.data
             /\ pendingRequests' = pendingRequests
             /\ profileMain' = profileMain
             /\ store' = store) ]_vars

\* Ann holds UPDATE on the page profile and her CV upload was answered 403
\* with hasPermission and requiresApproval; nothing is stored.
C29_Witness ==
  /\ resp.op = "POST /files/cv" /\ resp.token = "tokAnn" /\ resp.role = "sub"
  /\ resp.code = 403 /\ resp.hasPermission /\ resp.requiresApproval
  /\ \E s \in subAdmins : s.isActive /\ s.pagePermissions = PP_Profile
  /\ pendingRequests = {}

====
